---- MODULE Spec2Model ----
(***************************************************************************)
(* Mongore: a model instance (ModelInstanceWrapper) of one registered      *)
(* model class, its generated field setters, save / reload / load, the     *)
(* MongoConnection client and the document store behind it.               *)
(*                                                                         *)
(* JavaScript values are records [t, n]: t is the dynamic type and n the   *)
(* number carried (for a string: the number its decimal digits spell).     *)
(* JavaScript objects (the _fields map, documents) are functions whose     *)
(* DOMAIN is the set of keys the object has.                               *)
(***************************************************************************)
EXTENDS Integers, Sequences, FiniteSets, TLC

VARIABLES
    fields,         \* ModelInstanceWrapper._fields
    dirty,          \* ModelInstanceWrapper._dirtyFields
    isLoadedFromDB, \* ModelInstanceWrapper._isLoadedFromDB
    isSavedToDB,    \* ModelInstanceWrapper._isSavedToDB
    lastLoadTime,   \* ModelInstanceWrapper._lastLoadTime
    onFirstLoad,    \* ModelInstanceWrapper._onFirstLoad: TRUE when a callback is set
    db,             \* the collection: _id -> document
    pending,        \* requests handed to the driver whose callback has not run
    now,            \* the wall clock read by new Date()
    calls,          \* number of API calls made so far (bounded exploration)
    lastPersisted,  \* history: per field, the value last reported persisted / loaded
    sinceSave,      \* history: fate of the last save() of a new instance, or "deleted"
    lastOp          \* history: what the last step did

\* a Board instance whose field creator is a ForeignKeyField, the model
\* instances it may reference, and the store and client behind them
VARIABLES
    board,          \* the Board instance: its creator value, dirty and in-DB flags
    instances,      \* the User / Tag instances constructed so far, by handle
    boardStore,     \* the stored Board document and the stored User / Tag keys
    lookups,        \* requests of this world whose callback has not run
    fkOp            \* history: what the last step of this world did

\* a class that extends Model, before and after Model.buildModel
VARIABLES
    classMongore,   \* cls.mongore is set (the ModelClassWrapper is attached)
    prototype,      \* cls.prototype: what each property name holds
    created,        \* number of instances constructed with new
    regOp           \* history: what the last step of this world did

\* the collection of the registered model and its creation
VARIABLES
    indexDecl,      \* per field, the options of its descriptor createCollection reads
    collection,     \* the store: whether the collection exists, its indexes
    ddl,            \* createCollection / createIndex / drop requests in flight
    ddlTrace        \* history: per call, what was issued, answered and run

wrapperVars == <<fields, dirty, isLoadedFromDB, isSavedToDB, lastLoadTime, onFirstLoad,
                 db, pending, now, calls, lastPersisted, sinceSave, lastOp>>

fkVars == <<board, instances, boardStore, lookups, fkOp>>

regVars == <<classMongore, prototype, created, regOp>>

ddlVars == <<indexDecl, collection, ddl, ddlTrace>>

\* field descriptors called on their own
VARIABLES
    fieldData,      \* the _data of the descriptor application code holds
    fieldOwner,     \* the model instance handed to clean / initAfterLoad:
                    \* its attributes that are no fields
    fieldOp         \* history: what the last call of a descriptor did

fieldVars == <<fieldData, fieldOwner, fieldOp>>

\* a model one of whose fields is declared with {source: "name"}, as the
\* _id of the Dog model of the README is, and the attribute of that name
VARIABLES
    aliased,        \* the field declared with source "name"; "" when none is
    attrs           \* the attributes of the instance that are no fields

aliasVars == <<aliased, attrs>>

\* a model Node whose field next is a ForeignKeyField to Node itself, its
\* collection, and the findOne requests of load() that are in flight
VARIABLES
    nodeStore,      \* the collection of Node: _id -> the rest of the document
    nodeLoads,      \* findOne requests whose callback has not run
    nodeCount,      \* history: number of findOne issued; from MaxLoads on only
                    \* its parity is kept (MaxLoads, MaxLoads + 1, MaxLoads, ...)
    nodeOp          \* history: what the last step of this world did

nodeVars == <<nodeStore, nodeLoads, nodeCount, nodeOp>>

vars == <<wrapperVars, fkVars, regVars, ddlVars, fieldVars, aliasVars, nodeVars>>

----------------------------------------------------------------------------
(* Bounds of the exploration *)

MaxCalls == 3
MaxPending == 2
MaxTime == 2
MaxInstances == 2
MaxLookups == 2
MaxCreated == 2
MaxDdl == 2
MaxLoads == 3

----------------------------------------------------------------------------
(* JavaScript values *)

Undef == [t |-> "undef", n |-> 0]
Null == [t |-> "null", n |-> 0]
NaN == [t |-> "nan", n |-> 0]
Num(k) == [t |-> "num", n |-> k]
Str(k) == [t |-> "str", n |-> k]
Date(k) == [t |-> "date", n |-> k]
Infinity == [t |-> "inf", n |-> 0]
Bool(b) == [t |-> "bool", n |-> IF b THEN 1 ELSE 0]

\* a string that is not the decimal form of a number: its characters
Text(cs) == [t |-> "text", chars |-> cs]

\* an Array: its items
List(xs) == [t |-> "list", items |-> xs]

\* a plain object whose keys are kept in the order they were added
Dict(keys, vals) == [t |-> "dict", keys |-> keys, vals |-> vals]

\* what kind of value v is; a plain object is a Dict, or a function from its
\* keys where their order plays no part
KindOf(v) == IF "t" \in DOMAIN v THEN v.t ELSE "object"

\* obj[key] of a JavaScript object: undefined when the key is missing
Get(obj, key) == IF key \in DOMAIN obj THEN obj[key] ELSE Undef

\* obj[key] = value
Put(obj, key, value) ==
    [k \in DOMAIN obj \cup {key} |-> IF k = key THEN value ELSE obj[k]]

\* JavaScript truthiness, as used by the || operator
Truthy(v) ==
    CASE KindOf(v) = "undef" -> FALSE
      [] KindOf(v) = "null" -> FALSE
      [] KindOf(v) = "nan" -> FALSE
      [] KindOf(v) = "num" -> v.n # 0
      [] KindOf(v) = "bool" -> v.n = 1
      [] KindOf(v) = "text" -> v.chars # <<>>
      [] OTHER -> TRUE

\* a || b
Or(a, b) == IF Truthy(a) THEN a ELSE b

EmptyObj == [k \in {} |-> Undef]

\* typeof q === "object": a plain object, null, a Date, an Array or a model
\* instance
TypeofObject(q) == KindOf(q) \in {"object", "dict", "null", "date", "list", "inst"}

\* the object literal {_id: v}
IdFilter(v) == [k \in {"_id"} |-> v]

\* a normalisation that wraps every query, objects included
NormalizeQueryAlwaysWraps(query) == IdFilter(query)

\* the filter load() / delete() / deleteMany() hand to the client for a query
NormalizeQuery(query) == IF TypeofObject(query) THEN query ELSE IdFilter(query)

----------------------------------------------------------------------------
(* Strings: conversion to a string, length, and the numeric parsers *)

Digits == <<"0", "1", "2", "3", "4", "5", "6", "7", "8", "9">>

IsDigit(c) == \E i \in 1..10 : Digits[i] = c

\* the decimal form of a natural number
RECURSIVE DigitsOf(_)
DigitsOf(k) ==
    IF k < 10 THEN <<Digits[k + 1]>>
    ELSE DigitsOf(k \div 10) \o <<Digits[(k % 10) + 1]>>

\* the number a sequence of digits denotes
RECURSIVE NumberOf(_)
NumberOf(cs) ==
    IF cs = <<>> THEN 0
    ELSE LET last == CHOOSE k \in 0..9 : Digits[k + 1] = cs[Len(cs)]
         IN 10 * NumberOf(SubSeq(cs, 1, Len(cs) - 1)) + last

\* the string value with the given characters
FromChars(cs) ==
    IF /\ cs # <<>>
       /\ \A i \in 1..Len(cs) : IsDigit(cs[i])
       /\ (Len(cs) > 1 => cs[1] # "0")
    THEN Str(NumberOf(cs))
    ELSE Text(cs)

\* Array.prototype.join(","): null and undefined items give the empty string
RECURSIVE JoinChars(_, _)

\* String(v): the characters of the string form of v
StringChars(v) ==
    CASE KindOf(v) = "undef" -> <<"u", "n", "d", "e", "f", "i", "n", "e", "d">>
      [] KindOf(v) = "null" -> <<"n", "u", "l", "l">>
      [] KindOf(v) = "nan" -> <<"N", "a", "N">>
      [] KindOf(v) = "inf" -> <<"I", "n", "f", "i", "n", "i", "t", "y">>
      [] KindOf(v) = "num" -> DigitsOf(v.n)
      [] KindOf(v) = "str" -> DigitsOf(v.n)
      [] KindOf(v) = "text" -> v.chars
      [] KindOf(v) = "bool" -> IF v.n = 1 THEN <<"t", "r", "u", "e">>
                                            ELSE <<"f", "a", "l", "s", "e">>
      [] KindOf(v) = "date" ->
            \* Thu Jan 01 1970 00:00:00 GMT+0000 (Coordinated Universal Time)
            <<"T", "h", "u", " ", "J", "a", "n", " ", "0", "1", " ", "1", "9", "7", "0", " ",
              "0", "0", ":", "0", "0", ":", "0", "0", " ", "G", "M", "T", "+", "0", "0", "0",
              "0", " ", "(", "C", "o", "o", "r", "d", "i", "n", "a", "t", "e", "d", " ", "U",
              "n", "i", "v", "e", "r", "s", "a", "l", " ", "T", "i", "m", "e", ")">>
      [] KindOf(v) = "list" -> JoinChars(v.items, 1)
      [] OTHER -> \* [object Object]
            <<"[", "o", "b", "j", "e", "c", "t", " ", "O", "b", "j", "e", "c", "t", "]">>

JoinChars(xs, i) ==
    IF i > Len(xs) THEN <<>>
    ELSE (IF KindOf(xs[i]) \in {"null", "undef"} THEN <<>> ELSE StringChars(xs[i]))
         \o (IF i < Len(xs) THEN <<",">> ELSE <<>>)
         \o JoinChars(xs, i + 1)

\* String(v)
StringOf(v) == FromChars(StringChars(v))

\* s.length
Length(s) == Len(StringChars(s))

\* v.toString(): [ok, val]; ok = FALSE when it throws (null and undefined
\* have no properties)
ToStringOf(v) ==
    IF KindOf(v) \in {"null", "undef"} THEN [ok |-> FALSE, val |-> Undef]
    ELSE [ok |-> TRUE, val |-> StringOf(v)]

\* the longest prefix of digits of cs from position i on
RECURSIVE DigitPrefix(_, _)
DigitPrefix(cs, i) ==
    IF i > Len(cs) \/ ~IsDigit(cs[i]) THEN <<>>
    ELSE <<cs[i]>> \o DigitPrefix(cs, i + 1)

\* parseInt(v): the number the leading digits of String(v) denote
ParseInt(v) ==
    LET digits == DigitPrefix(StringChars(v), 1)
    IN IF digits = <<>> THEN NaN ELSE Num(NumberOf(digits))

\* parseFloat(v): as parseInt, and the text Infinity is a number
ParseFloat(v) ==
    LET cs == StringChars(v)
        p == StringChars(Infinity)
    IN IF Len(cs) >= Len(p) /\ SubSeq(cs, 1, Len(p)) = p THEN Infinity
       ELSE ParseInt(v)

\* a < b on parsed numbers
Less(a, b) ==
    IF a.t = "inf" THEN FALSE
    ELSE IF b.t = "inf" THEN TRUE
    ELSE a.n < b.n

----------------------------------------------------------------------------
(* The registered model: field descriptors *)

MetaKeys == {"_dbCreationTime", "_dbLastUpdateTime", "_dbObjectVersion"}

\* modelData.fields of the registered class, in declaration order
FieldOrder == <<"_id", "score">>

FieldNames == {FieldOrder[i] : i \in 1..Len(FieldOrder)}

\* the descriptor's _data; default = Undef stands for "no default given"
Descriptor(f) ==
    IF f = "_id"
    THEN [type |-> "generic", default |-> Undef,
          source |-> IF aliased = f THEN "name" ELSE "", canBeNull |-> FALSE,
          parser |-> "parseFloat", hasMin |-> FALSE, min |-> 0, hasMax |-> FALSE,
          max |-> 0]
    ELSE [type |-> "numeric", default |-> Undef,
          source |-> IF aliased = f THEN "name" ELSE "", canBeNull |-> FALSE,
          parser |-> "parseInt", hasMin |-> TRUE, min |-> 0, hasMax |-> TRUE,
          max |-> 2]

\* getFieldDescriptor(key): undefined for a key that is no registered field
HasDescriptor(key) == key \in FieldNames

TypeDefault(type) == IF type = "numeric" THEN Num(0) ELSE Null

\* Field constructor + default getter (cloneData is the identity on primitives)
Default(f) ==
    LET d == Descriptor(f)
    IN IF d.default = Undef THEN TypeDefault(d.type) ELSE d.default

\* Field.isEqual: a === b
IsEqual(f, a, b) == a = b

\* Field.clean: the aliased attribute of the owner, else the value
FieldClean(d, owner, value) ==
    IF d.source # "" THEN Get(owner, d.source) ELSE value

\* this._parser(value)
Parser(d, v) == IF d.parser = "parseInt" THEN ParseInt(v) ELSE ParseFloat(v)

\* NumericField.clean: [ok, val]; ok = FALSE when it throws.  The parsers
\* return numbers, so typeof value !== "number" never holds
NumericClean(d, owner, value) ==
    LET v == FieldClean(d, owner, value)
        p == Parser(d, v)
    IN IF v = Null /\ d.canBeNull THEN [ok |-> TRUE, val |-> v]
       ELSE IF p = NaN THEN [ok |-> FALSE, val |-> Undef]
       ELSE IF d.hasMin /\ Less(p, Num(d.min)) THEN [ok |-> FALSE, val |-> Undef]
       ELSE IF d.hasMax /\ Less(Num(d.max), p) THEN [ok |-> FALSE, val |-> Undef]
       ELSE [ok |-> TRUE, val |-> p]

\* descriptor.clean(owner, value), dispatched on the field variant
Clean(f, owner, value) ==
    LET d == Descriptor(f)
    IN IF d.type = "numeric" THEN NumericClean(d, owner, value)
       ELSE [ok |-> TRUE, val |-> FieldClean(d, owner, value)]

\* Field.initAfterLoad: returns the stored value
InitAfterLoad(f, value) == value

----------------------------------------------------------------------------
(* Values application code assigns *)

IdValues == {Num(1)}

\* the queries application code passes to load(): a key, or a query object
LoadQueries == IdValues \cup {[k \in {"_id", "score"} |-> Num(IF k = "_id" THEN 1 ELSE 0)]}
ScoreValues == {Num(1), Str(1), Num(3)}

\* the queries application code passes to the class-level deleteMany(): those
\* of load(), or a query object that does not fix the primary key
DeleteManyQueries == LoadQueries \cup {[k \in {"score"} |-> Num(1)]}

AssignValues(f) == IF f = "_id" THEN IdValues ELSE ScoreValues

----------------------------------------------------------------------------
(* History records *)

\* what a step did: the operation, its arguments, the request it issued
\* ("none" when it issued none), whether it threw, and the hooks / callbacks
\* / effects it ran, in program order
Op(name) ==
    [op |-> name, f |-> "", v |-> Undef, force |-> FALSE, wrote |-> "none",
     given |-> FALSE, threw |-> FALSE, events |-> <<>>, prev |-> "none",
     api |-> "", outcome |-> ""]

----------------------------------------------------------------------------
(* Model base class and generated accessors (model.js) *)

\* a setter that stores the value without marking the field dirty
SetterForgetsDirty(fs, ds, f, value) ==
    IF IsEqual(f, value, Get(fs, f))
    THEN [fields |-> fs, dirty |-> ds]
    ELSE [fields |-> Put(fs, f, value), dirty |-> ds]

\* generated setter: [fields, dirty] after this[f] = value
Setter(fs, ds, f, value) ==
    IF IsEqual(f, value, Get(fs, f))
    THEN [fields |-> fs, dirty |-> ds]
    ELSE [fields |-> Put(fs, f, value), dirty |-> ds \cup {f}]

\* Model.constructor: every field assigned its default through the setter,
\* starting from the wrapper's empty _fields and empty _dirtyFields
RECURSIVE Construct(_)
Construct(i) ==
    IF i = 0 THEN [fields |-> EmptyObj, dirty |-> {}]
    ELSE LET before == Construct(i - 1)
         IN Setter(before.fields, before.dirty, FieldOrder[i], Default(FieldOrder[i]))

NewInstance == Construct(Len(FieldOrder))

----------------------------------------------------------------------------
(* ModelInstanceWrapper (model_instance_wrapper.js) *)

isInDB == isLoadedFromDB \/ isSavedToDB

isDirty == Cardinality(dirty) # 0

id == Get(fields, "_id")

objectVersion == Get(fields, "_dbObjectVersion")

creationTime == Get(fields, "_dbCreationTime")

\* the keys toDocument cleans and copies
DocumentKeys(dirtyOnly) ==
    {k \in DOMAIN fields : ~(dirtyOnly /\ k \notin dirty)}

\* ret[key] of toDocument before the metadata is stamped; this._object
\* answers a field name through its getter and any other name by attribute
CleanedEntry(k) ==
    LET object == [n \in DOMAIN fields \cup DOMAIN attrs |->
                      IF n \in DOMAIN fields THEN fields[n] ELSE attrs[n]]
    IN IF HasDescriptor(k) THEN Clean(k, object, fields[k])
       ELSE [ok |-> TRUE, val |-> fields[k]]

\* a toDocument that copies the fields without cleaning them
ToDocumentUnchecked(dirtyOnly) ==
    LET keys == DocumentKeys(dirtyOnly)
        stamped(k) ==
            CASE k = "_dbLastUpdateTime" -> Date(now)
              [] k = "_dbCreationTime" -> Or(creationTime, Date(now))
              [] k = "_dbObjectVersion" -> Num(Or(objectVersion, Num(0)).n + 1)
              [] OTHER -> fields[k]
    IN [ok |-> TRUE, doc |-> [k \in keys \cup MetaKeys |-> stamped(k)]]

\* toDocument: [ok, doc]; ok = FALSE when a clean() throws
ToDocument(dirtyOnly) ==
    LET keys == DocumentKeys(dirtyOnly)
        lastUpdate == Date(now)
        stamped(k) ==
            CASE k = "_dbLastUpdateTime" -> lastUpdate
              [] k = "_dbCreationTime" -> Or(creationTime, lastUpdate)
              [] k = "_dbObjectVersion" -> Num(Or(objectVersion, Num(0)).n + 1)
              [] OTHER -> CleanedEntry(k).val
    IN IF \E k \in keys : ~CleanedEntry(k).ok
       THEN [ok |-> FALSE, doc |-> EmptyObj]
       ELSE [ok |-> TRUE, doc |-> [k \in keys \cup MetaKeys |-> stamped(k)]]

\* _afterSaveToDB(data): the fields after the metadata update
AfterSaveFields(data) ==
    LET f1 == Put(fields, "_dbCreationTime",
                  Or(Get(data, "_dbCreationTime"), creationTime))
        f2 == Put(f1, "_dbLastUpdateTime", Get(data, "_dbLastUpdateTime"))
    IN Put(f2, "_dbObjectVersion", Get(data, "_dbObjectVersion"))

\* a hydration that keeps the values the instance already holds
SetFromDBDocumentKeepsLocal(data) ==
    [k \in DOMAIN fields \cup DOMAIN data |->
        IF k \in DOMAIN fields THEN fields[k] ELSE data[k]]

\* _setFromDBDocument(data): the fields after hydration
SetFromDBDocument(data) ==
    [k \in DOMAIN fields \cup DOMAIN data |->
        IF k \in DOMAIN data
        THEN (IF HasDescriptor(k) THEN InitAfterLoad(k, data[k]) ELSE data[k])
        ELSE fields[k]]

\* a request handed to MongoConnection; raw (history) keeps the in-memory
\* values of the registered fields the document was built from, prev
\* (history) what sinceSave was when the request was issued, and name
\* (history) what instance.name was then
Request(api, kind, filter, doc, onSuccess, onError, onNotFound) ==
    [api |-> api, kind |-> kind, filter |-> filter, doc |-> doc,
     raw |-> [k \in DOMAIN doc \cap FieldNames |-> fields[k]],
     prev |-> sinceSave, name |-> Get(attrs, "name"),
     onSuccess |-> onSuccess, onError |-> onError, onNotFound |-> onNotFound]

----------------------------------------------------------------------------
(* ForeignKeyField (the descriptor of Board.creator) and the model          *)
(* instances it refers to.  A model instance is a handle into instances;    *)
(* User declares the field _id, Tag declares no _id field.                  *)

Models == {"User", "Tag"}

DeclaresId(cls) == cls = "User"

\* the descriptor's _data of Board.creator
BoardCreator ==
    [type |-> "foreignKey", model |-> "User", default |-> Undef, source |-> "",
     canBeNull |-> FALSE]

\* ForeignKeyField.typeDefault
FKTypeDefault == Null

\* a reference to the model instance with handle h
Ref(h) == [t |-> "inst", n |-> h]

\* new cls(): mongore.id is _fields._id, the default of the field _id when
\* the model declares it and undefined when it does not
Inst(cls) ==
    [cls |-> cls, id |-> IF DeclaresId(cls) THEN TypeDefault("generic") ELSE Undef,
     isLoadedFromDB |-> FALSE]

\* v == null
Nullish(v) == KindOf(v) \in {"null", "undef"}

\* v.mongore, as a condition: set on every model instance
HasMongore(v) == KindOf(v) = "inst"

\* v.mongore.id
IdOf(v) == instances[v.n].id

\* v instanceof cls
InstanceOf(v, cls) == KindOf(v) = "inst" /\ instances[v.n].cls = cls

\* ForeignKeyField.isEqual
FKIsEqual(a, b) ==
    IF Nullish(a) \/ Nullish(b) THEN ~(Nullish(a) /\ Nullish(b))     \* a != b
    ELSE IF ~HasMongore(a) \/ ~HasMongore(b) THEN FALSE
    ELSE IdOf(a) # IdOf(b)

\* ForeignKeyField.clean: [ok, val]; ok = FALSE when it throws
FKClean(d, value) ==
    LET v == FieldClean(d, EmptyObj, value)
    IN IF v = Null /\ d.canBeNull THEN [ok |-> TRUE, val |-> v]
       ELSE IF ~InstanceOf(v, d.model) THEN [ok |-> FALSE, val |-> Undef]
       ELSE IF IdOf(v) = Undef THEN [ok |-> FALSE, val |-> Undef]
       ELSE [ok |-> TRUE, val |-> IdOf(v)]

\* a request of this world handed to MongoConnection
FkRequest(api, kind, target, query, hasCreator, key, given, onNotFound) ==
    [api |-> api, kind |-> kind, target |-> target, query |-> query,
     hasCreator |-> hasCreator, creator |-> key, given |-> given,
     onNotFound |-> onNotFound]

\* an initAfterLoad that hands back an instance that is already hydrated
\* and issues no lookup
FKInitAfterLoadSync(d, value, h) ==
    [instance |-> [Inst(d.model) EXCEPT !.id = value, !.isLoadedFromDB = TRUE],
     requests |-> <<>>]

\* ForeignKeyField.initAfterLoad: model.mongore.load(value) constructs the
\* instance (handle h) it returns and issues a findOne with no continuation
FKInitAfterLoad(d, value, h) ==
    [instance |-> Inst(d.model),
     requests |-> <<FkRequest("fk", "find", h, NormalizeQuery(value), FALSE, Undef,
                                FALSE, FALSE)>>]

\* the generated setter of Board.creator
BoardSetter(b, value) ==
    IF FKIsEqual(value, b.creator) THEN b
    ELSE [b EXCEPT !.creator = value, !.dirty = TRUE]

\* new Board(): the default assigned through the setter over undefined
NewBoard ==
    BoardSetter([creator |-> Undef, dirty |-> FALSE, isLoadedFromDB |-> FALSE,
                 isSavedToDB |-> FALSE], FKTypeDefault)

\* the keys of stored User documents, and what a stored creator may hold
UserKeys == {Num(1), Num(2)}

StoredKeys == UserKeys \cup {Null}

\* what a step of this world did
FkOp(name) ==
    [op |-> name, a |-> Undef, b |-> Undef, result |-> FALSE, val |-> Undef,
     threw |-> FALSE, events |-> <<>>, target |-> 0, given |-> FALSE,
     canBeNull |-> FALSE, kind |-> "none"]

\* no Board document and no User document is stored
EmptyStore == [exists |-> FALSE, creator |-> Null, users |-> {}]

----------------------------------------------------------------------------
(* The field variants: the _data of a descriptor and its clean.  The       *)
(* schema of a DictionaryField is given by its keys in declaration order   *)
(* and the variant of the descriptor of each.                              *)

\* the _data of a descriptor of the given variant with no option set
\* (hasX = FALSE stands for data.X === undefined); a ChoiceField needs its
\* choices
FieldData(type) ==
    [type |-> type, default |-> Undef, source |-> "", sourceReadonly |-> FALSE,
     canBeNull |-> FALSE, parser |-> "parseFloat",
     hasMin |-> FALSE, min |-> 0, hasMax |-> FALSE, max |-> 0,
     hasMaxLength |-> FALSE, maxLength |-> 0, hasMinLength |-> FALSE, minLength |-> 0,
     autoNow |-> FALSE, choices |-> {}, hasMaxItems |-> FALSE, maxItems |-> 0,
     removeDuplicates |-> FALSE, itemsType |-> "", model |-> "User",
     hasSchema |-> FALSE, schemaKeys |-> <<>>, schemaTypes |-> <<>>]

\* BooleanField.clean
BooleanClean(d, who, value) ==
    LET v == FieldClean(d, who, value)
    IN IF v = Null /\ d.canBeNull THEN [ok |-> TRUE, val |-> v]
       ELSE [ok |-> TRUE, val |-> Bool(Truthy(v))]

\* StringField.clean
StringClean(d, who, value) ==
    LET v == FieldClean(d, who, value)
        s == ToStringOf(v)
    IN IF v = Null /\ d.canBeNull THEN [ok |-> TRUE, val |-> v]
       ELSE IF ~s.ok THEN [ok |-> FALSE, val |-> Undef]
       ELSE IF d.hasMaxLength /\ Length(s.val) > d.maxLength
       THEN [ok |-> FALSE, val |-> Undef]
       ELSE IF d.hasMinLength /\ Length(s.val) > d.minLength
       THEN [ok |-> FALSE, val |-> Undef]
       ELSE s

\* validateEmail: words@labels.letters with two letters or more at the end,
\* after String(email).toLowerCase(); the quoted local part and the
\* bracketed address of the pattern need characters no value here holds
ValidateEmail(email) ==
    LET Lowercase == <<"a", "b", "c", "d", "e", "f", "g", "h", "i", "j", "k", "l", "m",
                       "n", "o", "p", "q", "r", "s", "t", "u", "v", "w", "x", "y", "z">>
        Uppercase == <<"A", "B", "C", "D", "E", "F", "G", "H", "I", "J", "K", "L", "M",
                       "N", "O", "P", "Q", "R", "S", "T", "U", "V", "W", "X", "Y", "Z">>
        ToLowerCase(c) ==
            IF \E i \in 1..26 : Uppercase[i] = c
            THEN Lowercase[CHOOSE i \in 1..26 : Uppercase[i] = c]
            ELSE c
        raw == StringChars(email)
        cs == [k \in 1..Len(raw) |-> ToLowerCase(raw[k])]
        IsLetter(c) == \E i \in 1..26 : Lowercase[i] = c
        \* [^<>()\[\]\\.,;:\s@"], the dot apart
        InLocal(c) ==
            c \notin {"<", ">", "(", ")", "[", "]", "\\", ",", ";", ":", " ", "@", "\""}
        InLabel(c) == IsLetter(c) \/ IsDigit(c) \/ c = "-"
        \* cs[a..b] is a run of one or more dot-separated non-empty words
        Dotted(a, b, InWord(_)) ==
            /\ a <= b
            /\ cs[a] # "." /\ cs[b] # "."
            /\ \A k \in a..b : cs[k] = "." \/ InWord(cs[k])
            /\ \A k \in a..(b - 1) : ~(cs[k] = "." /\ cs[k + 1] = ".")
    IN \E at \in 1..Len(cs) : \E dot \in 1..Len(cs) :
          /\ cs[at] = "@" /\ cs[dot] = "." /\ at < dot
          /\ Dotted(1, at - 1, InLocal)
          /\ Dotted(at + 1, dot - 1, InLabel)
          /\ Len(cs) - dot >= 2
          /\ \A k \in (dot + 1)..Len(cs) : IsLetter(cs[k])

\* EmailField.clean
EmailClean(d, who, value) ==
    LET s == StringClean(d, who, value)
    IN IF ~s.ok THEN s
       ELSE IF ~ValidateEmail(s.val) THEN [ok |-> FALSE, val |-> Undef]
       ELSE s

\* DateField.clean at the given time
DateClean(d, who, value, time) ==
    LET v == FieldClean(d, who, value)
    IN IF v = Null THEN [ok |-> TRUE, val |-> IF d.autoNow THEN Date(time) ELSE v]
       ELSE IF KindOf(v) # "date" THEN [ok |-> FALSE, val |-> Undef]
       ELSE [ok |-> TRUE, val |-> v]

\* ChoiceField.clean: this._choices is the Set of the choices as given
ChoiceClean(d, who, value) ==
    LET v == FieldClean(d, who, value)
        s == ToStringOf(v)
    IN IF v = Null /\ d.canBeNull THEN [ok |-> TRUE, val |-> v]
       ELSE IF ~s.ok THEN [ok |-> FALSE, val |-> Undef]
       ELSE IF s.val \notin d.choices THEN [ok |-> FALSE, val |-> Undef]
       ELSE s

\* a removal of duplicates that keeps the last occurrence of each item
RECURSIVE DistinctKeepsLast(_, _)
DistinctKeepsLast(xs, i) ==
    IF i > Len(xs) THEN <<>>
    ELSE (IF \E k \in (i + 1)..Len(xs) : xs[k] = xs[i] THEN <<>> ELSE <<xs[i]>>)
         \o DistinctKeepsLast(xs, i + 1)

\* Array.from(new Set(xs)): the first occurrence of each item, in order
\* (the items here are primitives, which a Set compares by value)
RECURSIVE Distinct(_, _)
Distinct(xs, i) ==
    IF i > Len(xs) THEN <<>>
    ELSE (IF \E k \in 1..(i - 1) : xs[k] = xs[i] THEN <<>> ELSE <<xs[i]>>)
         \o Distinct(xs, i + 1)

\* ListField.clean
ListClean(d, who, value) ==
    LET v == FieldClean(d, who, value)
        \* this._type.clean(instance, item): a NumericField or a StringField
        ItemClean(item) ==
            IF d.itemsType = "numeric" THEN NumericClean(FieldData("numeric"), who, item)
            ELSE StringClean(FieldData("string"), who, item)
        typed == IF d.itemsType = "" THEN [k \in {} |-> 0]
                 ELSE [k \in 1..Len(v.items) |-> ItemClean(v.items[k])]
        items == IF d.itemsType = "" THEN v.items
                 ELSE [k \in 1..Len(v.items) |-> typed[k].val]
    IN IF KindOf(v) # "list" THEN [ok |-> FALSE, val |-> Undef]
       ELSE IF d.hasMaxItems /\ Len(v.items) > d.maxItems
       THEN [ok |-> FALSE, val |-> Undef]
       ELSE IF \E k \in DOMAIN typed : ~typed[k].ok THEN [ok |-> FALSE, val |-> Undef]
       ELSE [ok |-> TRUE,
             val |-> List(IF d.removeDuplicates THEN Distinct(items, 1) ELSE items)]

\* Object.keys(v) of a plain object
ObjectKeys(v) ==
    IF KindOf(v) = "dict" THEN v.keys
    ELSE CHOOSE keys \in [1..Cardinality(DOMAIN v) -> DOMAIN v] :
            \A k \in DOMAIN v : \E i \in DOMAIN keys : keys[i] = k

\* arraysEqual: the same length and the same element at every index
ArraysEqual(arr1, arr2) ==
    /\ Len(arr1) = Len(arr2)
    /\ \A i \in 1..Len(arr1) : arr1[i] = arr2[i]

\* DictionaryField.clean: reading value.constructor throws on null and
\* undefined; with a schema the keys are compared with the schema's and
\* every value is cleaned by the descriptor of its key
DictionaryClean(d, who, value) ==
    LET v == FieldClean(d, who, value)
        keys == ObjectKeys(v)
        \* this._schema[key].clean(instance, value[key])
        SchemaClean(i) ==
            IF d.schemaTypes[i] = "numeric"
            THEN NumericClean(FieldData("numeric"), who, v.vals[i])
            ELSE StringClean(FieldData("string"), who, v.vals[i])
        cleaned == [i \in 1..Len(keys) |-> SchemaClean(i)]
    IN IF KindOf(v) \in {"null", "undef"} THEN [ok |-> FALSE, val |-> Undef]
       ELSE IF KindOf(v) \notin {"object", "dict"} THEN [ok |-> FALSE, val |-> Undef]
       ELSE IF ~d.hasSchema THEN [ok |-> TRUE, val |-> v]
       ELSE IF ~ArraysEqual(keys, d.schemaKeys) THEN [ok |-> FALSE, val |-> Undef]
       ELSE IF \E i \in 1..Len(keys) : ~cleaned[i].ok THEN [ok |-> FALSE, val |-> Undef]
       ELSE [ok |-> TRUE, val |-> Dict(keys, [i \in 1..Len(keys) |-> cleaned[i].val])]

\* descriptor.clean(who, value) at the given time, by variant
VariantClean(d, who, value, time) ==
    CASE d.type = "generic" -> [ok |-> TRUE, val |-> FieldClean(d, who, value)]
      [] d.type = "boolean" -> BooleanClean(d, who, value)
      [] d.type = "numeric" -> NumericClean(d, who, value)
      [] d.type = "string" -> StringClean(d, who, value)
      [] d.type = "email" -> EmailClean(d, who, value)
      [] d.type = "date" -> DateClean(d, who, value, time)
      [] d.type = "choice" -> ChoiceClean(d, who, value)
      [] d.type = "list" -> ListClean(d, who, value)
      [] d.type = "dictionary" -> DictionaryClean(d, who, value)
      [] d.type = "foreignKey" -> FKClean(d, FieldClean(d, who, value))

\* what a call of a descriptor did: clean gave [ok, val]; for a round trip
\* loaded is what initAfterLoad returned and again the clean of that
FieldOp(name) ==
    [op |-> name, d |-> FieldData("generic"), value |-> Undef, ok |-> FALSE,
     val |-> Undef, loaded |-> Undef, again |-> [ok |-> FALSE, val |-> Undef]]

----------------------------------------------------------------------------
(* Model.buildModel and Model.constructor on a class that extends Model    *)

\* property names a class may define and a model may declare as fields
Names == {"name", "score", "total"}

\* cls.prototype[name] is one of "absent" (no such property), "method",
\* "falsy" (a property whose value read on the prototype is falsy: a getter
\* computing from instance state, a data property holding 0 / "" / null) or
\* "accessor" (the getter and setter that buildModel defined)

\* the condition _cls.prototype[_fieldName]: [threw, truthy]; the generated
\* getter read on the prototype dereferences the prototype's missing mongore
ReadPrototype(proto, name) ==
    [threw |-> proto[name] = "accessor", truthy |-> proto[name] = "method"]

\* the loop of buildModel over modelData.fields from its i-th field on:
\* [prototype, threw]
RECURSIVE DefineFields(_, _, _)
DefineFields(proto, decl, i) ==
    IF i > Len(decl) THEN [prototype |-> proto, threw |-> FALSE]
    ELSE IF ReadPrototype(proto, decl[i]).threw \/ ReadPrototype(proto, decl[i]).truthy
    THEN [prototype |-> proto, threw |-> TRUE]
    ELSE DefineFields([proto EXCEPT ![decl[i]] = "accessor"], decl, i + 1)

\* the fields objects application code passes, in declaration order
Declarations ==
    {<<"name">>, <<"score">>, <<"name", "score">>, <<"score", "total">>,
     <<"total", "name", "score">>}

\* what a step of this world did; existing (history): the declared names
\* the class had a property for when buildModel was called
RegOp(name) == [op |-> name, decl |-> <<>>, threw |-> FALSE, existing |-> {}]

\* a class on which buildModel was not called
NoClass == [n \in Names |-> "absent"]

----------------------------------------------------------------------------
(* createCollection and dropCollection of ModelClassWrapper, createIndex   *)
(* of MongoConnection                                                      *)

\* the options a descriptor may be constructed with that createCollection
\* reads: index, unique, and bounded for a NumericField given min or max
IndexOptions == [index : BOOLEAN, unique : BOOLEAN, bounded : BOOLEAN]

\* a model none of whose fields is an index or a bounded number
NoIndexes == [f \in FieldNames |-> [index |-> FALSE, unique |-> FALSE, bounded |-> FALSE]]

\* getValidatorProperties of the descriptor throws: NumericField assigns
\* minimum / maximum to a variable ret that it never declares
ValidatorPropertiesThrow(options) == options.bounded

\* getCollectionOptions() throws: it asks every field for its validator
\* properties
CollectionOptionsThrow(descriptors) ==
    \E f \in FieldNames : ValidatorPropertiesThrow(descriptors[f])

\* no collection in the store
NoCollection == [exists |-> FALSE, indexes |-> {}, uniqueIndexes |-> {}]

\* the fields, in declaration order, that descriptors declares as index
\* (isIndex) and, as asked, as unique (isUniqueIndex) or not
RECURSIVE IndexBatch(_, _, _)
IndexBatch(descriptors, unique, i) ==
    IF i > Len(FieldOrder) THEN <<>>
    ELSE (IF descriptors[FieldOrder[i]].index /\ descriptors[FieldOrder[i]].unique = unique
          THEN <<FieldOrder[i]>> ELSE <<>>)
         \o IndexBatch(descriptors, unique, i + 1)

\* a request of this world handed to the driver, for the call-th call
DdlRequest(call, kind, unique, indexes, onSuccess, onError) ==
    [call |-> call, kind |-> kind, unique |-> unique, indexes |-> indexes,
     onSuccess |-> onSuccess, onError |-> onError]

\* batches created in the opposite order: unique indexes first
StagesUniqueFirst == <<TRUE, FALSE>>

\* the options of the two createIndex calls, in the order the callbacks of
\* createCollection nest them: {unique: false} then {unique: true}
Stages == <<FALSE, TRUE>>

\* createIndex for the stage-th batch and what follows from it in the same
\* turn: with an empty batch createIndex calls its onSuccess at once, which
\* is the next createIndex or, after the last batch, the caller's onSuccess.
\* [requests, events]
RECURSIVE CreateIndex(_, _, _, _)
CreateIndex(call, stage, onSuccess, onError) ==
    IF stage > Len(Stages)
    THEN [requests |-> <<>>, events |-> IF onSuccess THEN <<"onSuccess">> ELSE <<>>]
    ELSE LET indexes == IndexBatch(indexDecl, Stages[stage], 1)
         IN IF indexes = <<>> THEN CreateIndex(call, stage + 1, onSuccess, onError)
            ELSE [requests |-> <<DdlRequest(call, "createIndex", Stages[stage], indexes,
                                            onSuccess, onError)>>,
                  events |-> <<IF Stages[stage] THEN "createIndex(unique)"
                               ELSE "createIndex">>]

\* the stage a createIndex request belongs to
StageOf(r) == CHOOSE s \in 1..Len(Stages) : Stages[s] = r.unique

\* what a call has issued and run so far
Trace(api, onSuccess, events) == [api |-> api, given |-> onSuccess, events |-> events]

\* the Node model is not in use: its collection is empty, nothing is loaded
NoNodes ==
    /\ nodeStore = EmptyObj
    /\ nodeLoads = <<>>
    /\ nodeCount = 0
    /\ nodeOp = "none"

----------------------------------------------------------------------------
(* Initial state: the store is empty and application code has constructed  *)
(* one instance of the registered model with new                           *)

InitWrapper ==
    /\ fields = NewInstance.fields
    /\ dirty = NewInstance.dirty
    /\ isLoadedFromDB = FALSE
    /\ isSavedToDB = FALSE
    /\ lastLoadTime = Null
    /\ onFirstLoad = FALSE
    /\ db = EmptyObj
    /\ pending = <<>>
    /\ now = 1
    /\ calls = 0
    /\ lastPersisted = EmptyObj
    /\ sinceSave = "none"
    /\ lastOp = Op("new")

Init ==
    /\ aliased = ""
    /\ attrs = EmptyObj
    /\ NoNodes
    /\ InitWrapper
    /\ instances = <<>>
    /\ board = NewBoard
    /\ boardStore = EmptyStore
    /\ lookups = <<>>
    /\ fkOp = FkOp("new")
    /\ classMongore = FALSE
    /\ prototype = NoClass
    /\ created = 0
    /\ regOp = RegOp("class")
    /\ indexDecl = NoIndexes
    /\ collection = NoCollection
    /\ ddl = <<>>
    /\ ddlTrace = <<>>
    /\ fieldData = FieldData("generic")
    /\ fieldOwner = EmptyObj
    /\ fieldOp = FieldOp("none")

----------------------------------------------------------------------------
(* Application code: field assignment *)

\* instance[f] = value, through the generated setter
Assign(f, value) ==
    LET after == Setter(fields, dirty, f, value)
    IN /\ calls < MaxCalls
       /\ calls' = calls + 1
       /\ fields' = after.fields
       /\ dirty' = after.dirty
       /\ sinceSave' = IF after.fields # fields THEN "none" ELSE sinceSave
       /\ lastOp' = [Op("assign") EXCEPT !.f = f, !.v = value]
       /\ UNCHANGED <<fkVars, regVars, ddlVars, fieldVars, aliasVars, nodeVars>>
       /\ UNCHANGED <<isLoadedFromDB, isSavedToDB, lastLoadTime, onFirstLoad, db,
                      pending, now, lastPersisted>>

\* setToDefault(fieldName)
SetToDefault(f) == Assign(f, Default(f))

----------------------------------------------------------------------------
(* The one-shot callback: instance.mongore.onLoaded = value *)

\* set onLoaded(value): stored in _onFirstLoad, invoked at once when the
\* instance is already loaded
SetOnLoaded(value) ==
    /\ calls < MaxCalls
    /\ calls' = calls + 1
    /\ onFirstLoad' = value
    /\ lastOp' = [Op("onLoaded") EXCEPT !.given = value,
                      !.events = IF value /\ isLoadedFromDB
                                 THEN <<"onFirstLoad(object)">> ELSE <<>>]
    /\ UNCHANGED <<fields, dirty, isLoadedFromDB, isSavedToDB, lastLoadTime, db,
                   pending, now, lastPersisted, sinceSave>>
    /\ UNCHANGED <<fkVars, regVars, ddlVars, fieldVars, aliasVars, nodeVars>>

\* this.onFirstLoad as _afterLoadFromDB reads it: the wrapper has the
\* property _onFirstLoad and the accessor onLoaded, and none of this name
ThisOnFirstLoad == Undef

----------------------------------------------------------------------------
(* delete(onSuccess, onError) of the instance wrapper *)

Delete(onSuccess, onError) ==
    /\ calls < MaxCalls
    /\ calls' = calls + 1
    /\ Len(pending) < MaxPending
    /\ pending' = Append(pending,
           Request("delete", "delete", IdFilter(id), EmptyObj, onSuccess, onError, FALSE))
    /\ lastOp' = [Op("delete") EXCEPT !.wrote = "delete", !.given = onSuccess,
                                       !.events = <<"deleteOne">>]
    /\ UNCHANGED <<fields, dirty, isLoadedFromDB, isSavedToDB, lastLoadTime,
                   onFirstLoad, db, now, lastPersisted, sinceSave>>
    /\ UNCHANGED <<fkVars, regVars, ddlVars, fieldVars, aliasVars, nodeVars>>

----------------------------------------------------------------------------
(* save(onSuccess, onError, forceSave) *)

\* a save() that updates an instance in storage whether dirty or not
SaveKindAlwaysWrites(force) == IF isInDB THEN "update" ELSE "insert"

\* the request save() hands to the client: "update", "insert" or "none"
SaveKind(force) ==
    IF isInDB THEN (IF force \/ isDirty THEN "update" ELSE "none") ELSE "insert"

\* the document save() builds for that request
SaveDocument(force) == ToDocument(isInDB)

Save(onSuccess, onError, force) ==
    LET kind == SaveKind(force)
        built == SaveDocument(force)
        op == [Op("save") EXCEPT !.force = force, !.given = onSuccess,
                                 !.prev = sinceSave]
    IN /\ calls < MaxCalls
       /\ calls' = calls + 1
       /\ UNCHANGED <<fields, dirty, isLoadedFromDB, isSavedToDB, lastLoadTime,
                      onFirstLoad, db, now, lastPersisted>>
       /\ UNCHANGED <<fkVars, regVars, ddlVars, fieldVars, aliasVars, nodeVars>>
       /\ IF kind = "none"
          THEN \* not dirty and not forced: only a debug log line
               /\ pending' = pending
               /\ sinceSave' = sinceSave
               /\ lastOp' = [op EXCEPT !.events = <<"beforeSaveToDB", "skip">>]
          ELSE IF ~built.ok
          THEN \* a clean() threw inside toDocument
               /\ pending' = pending
               /\ sinceSave' = sinceSave
               /\ lastOp' = [op EXCEPT !.threw = TRUE,
                                       !.events = <<"beforeSaveToDB", "throw">>]
          ELSE /\ Len(pending) < MaxPending
               /\ pending' = Append(pending,
                      Request("save", kind, IF kind = "insert" THEN EmptyObj ELSE IdFilter(id),
                              built.doc, onSuccess, onError, FALSE))
               /\ sinceSave' = IF kind = "insert" THEN "inflight" ELSE "none"
               /\ lastOp' = [op EXCEPT !.wrote = kind,
                      !.events = <<"beforeSaveToDB", "toDocument",
                                   IF kind = "insert" THEN "insertOne" ELSE "updateOne">>]

----------------------------------------------------------------------------
(* reload(onSuccess, onError) and the class-level load(query, ...) *)

\* a reload() without the sanity check
ReloadUnchecked(onSuccess, onError) ==
    /\ calls < MaxCalls
    /\ calls' = calls + 1
    /\ UNCHANGED <<fields, dirty, isLoadedFromDB, isSavedToDB, lastLoadTime,
                   onFirstLoad, db, now, lastPersisted>>
    /\ UNCHANGED <<fkVars, regVars, ddlVars, fieldVars, aliasVars, nodeVars>>
    /\ Len(pending) < MaxPending
    /\ pending' = Append(pending,
           Request("reload", "find", IdFilter(id), EmptyObj, onSuccess, onError, FALSE))
    /\ sinceSave' = "none"
    /\ lastOp' = [Op("reload") EXCEPT !.wrote = "find", !.events = <<"findOne">>]

Reload(onSuccess, onError) ==
    /\ calls < MaxCalls
    /\ calls' = calls + 1
    /\ UNCHANGED <<fields, dirty, isLoadedFromDB, isSavedToDB, lastLoadTime,
                   onFirstLoad, db, now, lastPersisted>>
    /\ UNCHANGED <<fkVars, regVars, ddlVars, fieldVars, aliasVars, nodeVars>>
    /\ IF ~isInDB
       THEN /\ pending' = pending
            /\ sinceSave' = sinceSave
            /\ lastOp' = [Op("reload") EXCEPT !.threw = TRUE, !.events = <<"throw">>]
       ELSE /\ Len(pending) < MaxPending
            /\ pending' = Append(pending,
                   Request("reload", "find", IdFilter(id), EmptyObj, onSuccess, onError,
                           FALSE))
            /\ sinceSave' = "none"
            /\ lastOp' = [Op("reload") EXCEPT !.wrote = "find", !.events = <<"findOne">>]

\* ModelClassWrapper.load: a new instance is constructed and returned, and a
\* findOne is issued for it.  The model follows the returned instance; it is
\* taken once the previous instance has no callback outstanding.
Load(query, onSuccess, onNotFound, onError) ==
    /\ calls < MaxCalls
    /\ calls' = calls + 1
    /\ pending = <<>>
    /\ fields' = NewInstance.fields
    /\ dirty' = NewInstance.dirty
    /\ isLoadedFromDB' = FALSE
    /\ isSavedToDB' = FALSE
    /\ lastLoadTime' = Null
    /\ onFirstLoad' = FALSE
    /\ pending' = <<Request("load", "find", NormalizeQuery(query), EmptyObj, onSuccess,
                            onError, onNotFound)>>
    /\ lastPersisted' = EmptyObj
    /\ sinceSave' = "none"
    /\ lastOp' = [Op("load") EXCEPT !.v = query, !.wrote = "find",
                                     !.events = <<"new", "findOne">>]
    /\ attrs' = EmptyObj
    /\ UNCHANGED <<db, now, aliased>>
    /\ UNCHANGED <<fkVars, regVars, ddlVars, fieldVars, nodeVars>>

----------------------------------------------------------------------------
(* The store behind MongoConnection (the MongoDB driver and server) *)

\* what the driver hands to the callback of insertOne / updateOne: its write
\* result object, which carries none of the document's fields
WriteResult == [k \in {"result"} |-> Num(1)]

\* {$set: doc} applied to a stored document
SetOnto(stored, doc) ==
    [k \in DOMAIN stored \cup DOMAIN doc |->
        IF k \in DOMAIN doc THEN doc[k] ELSE stored[k]]

\* a stored document matches a filter: every key of the filter equals the
\* document's value (null also matches a missing key)
Matches(doc, filter) ==
    \A k \in DOMAIN filter :
        \/ Get(doc, k) = filter[k]
        \/ filter[k] = Null /\ k \notin DOMAIN doc

\* the driver's answer to a request: [state, res, db], db being the
\* collection afterwards; any request may fail (connection, timeout).
\* Every filter issued for a single document fixes _id, so at most one
\* document matches it; deleteMany removes every document its filter matches.
Answer(r, fail) ==
    LET key == IF r.kind = "insert" THEN Get(r.doc, "_id") ELSE Get(r.filter, "_id")
        found == IF r.kind = "insert" THEN key \in DOMAIN db
                 ELSE key \in DOMAIN db /\ Matches(db[key], r.filter)
        rejected ==
            \/ fail
            \/ r.kind = "insert" /\ found                 \* duplicate key
            \/ /\ r.kind = "update" /\ found              \* _id is immutable
               /\ "_id" \in DOMAIN r.doc /\ r.doc["_id"] # key
        \* the write and delete results of the driver are objects, found or not
        state == IF rejected THEN "err"
                 ELSE IF r.kind = "find" /\ ~found THEN "notfound"
                 ELSE "ok"
    IN [state |-> state,
        res |-> IF state # "ok" THEN EmptyObj
                ELSE IF r.kind = "find" THEN db[key]
                ELSE WriteResult,
        db |-> IF state # "ok" THEN db
               ELSE IF r.kind = "insert" THEN Put(db, key, r.doc)
               ELSE IF r.kind = "update" /\ found
                    THEN Put(db, key, SetOnto(db[key], r.doc))
               ELSE IF r.kind = "delete" /\ found
                    THEN [k \in DOMAIN db \ {key} |-> db[k]]
               ELSE IF r.kind = "deleteMany"
                    THEN [k \in {j \in DOMAIN db : ~Matches(db[j], r.filter)} |-> db[k]]
               ELSE db]

----------------------------------------------------------------------------
(* Completion callbacks: the driver answers request i and MongoConnection  *)
(* runs the continuation for that answer                                   *)

Without(seq, i) == [j \in 1..(Len(seq) - 1) |-> IF j < i THEN seq[j] ELSE seq[j + 1]]

\* lastPersisted once the registered fields of doc are known to be stored
Persisted(doc) ==
    [k \in (DOMAIN lastPersisted \cup (DOMAIN doc \cap FieldNames)) |->
        IF k \in DOMAIN doc THEN doc[k] ELSE lastPersisted[k]]

\* a helper that drops the error when no callback was given
CallbackOrThrowSwallows(op, onError) ==
    IF onError THEN [op EXCEPT !.events = <<"onError">>] ELSE op

\* callbackOrThrow(err, callback)
CallbackOrThrow(op, onError) ==
    IF onError THEN [op EXCEPT !.events = <<"onError">>]
    ELSE [op EXCEPT !.threw = TRUE, !.events = <<"throw">>]

\* a success callback that tells the caller before the post-save hook ran
SaveDoneEventsCallerFirst(onSuccess) ==
    <<"isSavedToDB", "clearDirty", "setMetadata">>
        \o (IF onSuccess THEN <<"onSuccess(object)">> ELSE <<>>)
        \o <<"afterSavedToDB">>

\* the effects of save()'s success callback, in program order
SaveDoneEvents(onSuccess) ==
    <<"isSavedToDB", "clearDirty", "setMetadata", "afterSavedToDB">>
        \o (IF onSuccess THEN <<"onSuccess(object)">> ELSE <<>>)

\* a findOne success callback that hydrates and tells nobody
LoadDoneEventsSilent(api, onSuccess, firstLoad) ==
    <<"setFields", "isLoadedFromDB", "clearDirty", "setLastLoadTime",
      "afterLoadedFromDB">>

\* the effects of the findOne success callback of reload() / load();
\* firstLoad is !_isLoadedFromDB as _afterLoadFromDB finds it
LoadDoneEvents(api, onSuccess, firstLoad) ==
    <<"setFields", "isLoadedFromDB", "clearDirty", "setLastLoadTime",
      "afterLoadedFromDB">>
        \o (IF firstLoad /\ Truthy(ThisOnFirstLoad)
            THEN <<"onFirstLoad(object)">> ELSE <<>>)
        \o (IF ~onSuccess THEN <<>>
            ELSE IF api = "reload" THEN <<"onSuccess(wrapper)">>
            ELSE <<"onSuccess(object)">>)

\* insertOne / updateOne answered without error: _afterSaveToDB, onSuccess
SaveDone(i) ==
    LET r == pending[i]
        a == Answer(r, FALSE)
    IN /\ r.kind \in {"insert", "update"} /\ a.state = "ok"
       /\ pending' = Without(pending, i)
       /\ db' = a.db
       /\ isSavedToDB' = TRUE
       /\ dirty' = {}
       /\ fields' = AfterSaveFields(a.res)
       /\ lastPersisted' = Persisted(r.raw)
       /\ sinceSave' = IF r.kind = "insert" /\ sinceSave = "inflight"
                       THEN "acked" ELSE sinceSave
       /\ lastOp' = [Op("saveDone") EXCEPT !.api = r.api, !.wrote = r.kind,
                        !.outcome = "ok", !.given = r.onSuccess, !.prev = r.prev,
                        !.v = r.name,
                        !.events = SaveDoneEvents(r.onSuccess)]
       /\ UNCHANGED <<isLoadedFromDB, lastLoadTime, onFirstLoad, now, calls>>
       /\ UNCHANGED <<fkVars, regVars, ddlVars, fieldVars, aliasVars, nodeVars>>

\* a hydration that also marks the instance as saved
LoadDoneMarksSaved(i) ==
    LET r == pending[i]
        a == Answer(r, FALSE)
    IN /\ r.kind = "find" /\ a.state = "ok"
       /\ pending' = Without(pending, i)
       /\ fields' = SetFromDBDocument(a.res)
       /\ isLoadedFromDB' = TRUE
       /\ isSavedToDB' = TRUE
       /\ dirty' = {}
       /\ lastLoadTime' = Date(now)
       /\ lastPersisted' = Persisted([k \in DOMAIN a.res \cap FieldNames |->
                                          InitAfterLoad(k, a.res[k])])
       /\ sinceSave' = "none"
       /\ lastOp' = [Op("loadDone") EXCEPT !.api = r.api, !.wrote = r.kind,
                        !.outcome = "ok", !.given = r.onSuccess,
                        !.prev = IF isLoadedFromDB THEN "loaded" ELSE "none",
                        !.events = LoadDoneEvents(r.api, r.onSuccess, ~isLoadedFromDB)]
       /\ UNCHANGED <<onFirstLoad, db, now, calls, aliasVars, nodeVars>>
       /\ UNCHANGED <<fkVars, regVars, ddlVars, fieldVars, nodeVars>>

\* findOne answered with a document: _setFromDBDocument(data, true), onSuccess
LoadDone(i) ==
    LET r == pending[i]
        a == Answer(r, FALSE)
    IN /\ r.kind = "find" /\ a.state = "ok"
       /\ pending' = Without(pending, i)
       /\ fields' = SetFromDBDocument(a.res)
       /\ isLoadedFromDB' = TRUE
       /\ dirty' = {}
       /\ lastLoadTime' = Date(now)
       /\ lastPersisted' = Persisted([k \in DOMAIN a.res \cap FieldNames |->
                                          InitAfterLoad(k, a.res[k])])
       /\ sinceSave' = "none"
       /\ lastOp' = [Op("loadDone") EXCEPT !.api = r.api, !.wrote = r.kind,
                        !.outcome = "ok", !.given = r.onSuccess,
                        !.prev = IF isLoadedFromDB THEN "loaded" ELSE "none",
                        !.events = LoadDoneEvents(r.api, r.onSuccess, ~isLoadedFromDB)]
       \* Field.initAfterLoad: instance[source] = value
       /\ attrs' = IF aliased \in DOMAIN a.res
                   THEN Put(attrs, "name", InitAfterLoad(aliased, a.res[aliased]))
                   ELSE attrs
       /\ UNCHANGED <<isSavedToDB, onFirstLoad, db, now, calls, aliased>>
       /\ UNCHANGED <<fkVars, regVars, ddlVars, fieldVars, nodeVars>>

\* a success callback of delete() that tells the caller before the hook ran
DeleteDoneEventsCallerFirst(onSuccess) ==
    (IF onSuccess THEN <<"onSuccess(wrapper)">> ELSE <<>>) \o <<"afterDeletedFromDB">>

\* the effects of delete()'s success callback, in program order
DeleteDoneEvents(onSuccess) ==
    <<"afterDeletedFromDB">> \o (IF onSuccess THEN <<"onSuccess(wrapper)">> ELSE <<>>)

\* deleteOne answered without error: afterDeletedFromDB, onSuccess
DeleteDone(i) ==
    LET r == pending[i]
        a == Answer(r, FALSE)
    IN /\ r.api = "delete" /\ a.state = "ok"
       /\ pending' = Without(pending, i)
       /\ db' = a.db
       /\ sinceSave' = "deleted"
       /\ lastOp' = [Op("deleteDone") EXCEPT !.api = r.api, !.wrote = r.kind,
                        !.outcome = "ok", !.given = r.onSuccess,
                        !.events = DeleteDoneEvents(r.onSuccess)]
       /\ UNCHANGED <<fields, dirty, isLoadedFromDB, isSavedToDB, lastLoadTime,
                      onFirstLoad, now, calls, lastPersisted>>
       /\ UNCHANGED <<fkVars, regVars, ddlVars, fieldVars, aliasVars, nodeVars>>

\* a client that treats a missing document as any other error
FailedIgnoresNotFound(i, fail) ==
    LET r == pending[i]
        a == Answer(r, fail)
        op == [Op("failed") EXCEPT !.api = r.api, !.wrote = r.kind,
                                   !.outcome = a.state, !.given = r.onError]
    IN /\ a.state \in {"err", "notfound"}
       /\ pending' = Without(pending, i)
       /\ sinceSave' = IF r.kind = "insert" /\ sinceSave = "inflight"
                       THEN "failed" ELSE sinceSave
       /\ lastOp' = CallbackOrThrow(op, r.onError)
       /\ UNCHANGED <<fields, dirty, isLoadedFromDB, isSavedToDB, lastLoadTime,
                      onFirstLoad, db, now, calls, lastPersisted>>
       /\ UNCHANGED <<fkVars, regVars, ddlVars, fieldVars, aliasVars, nodeVars>>

\* a client that hands a failed request to the driver once more
FailedRetries(i, fail) ==
    LET r == pending[i]
        a == Answer(r, fail)
        op == [Op("failed") EXCEPT !.api = r.api, !.wrote = r.kind,
                                   !.outcome = a.state, !.given = r.onError]
    IN /\ a.state \in {"err", "notfound"}
       /\ pending' = Append(Without(pending, i), r)
       /\ sinceSave' = sinceSave
       /\ lastOp' = IF a.state = "notfound" /\ r.onNotFound
                    THEN [op EXCEPT !.events = <<"onNotFound">>]
                    ELSE CallbackOrThrow(op, r.onError)
       /\ UNCHANGED <<fields, dirty, isLoadedFromDB, isSavedToDB, lastLoadTime,
                      onFirstLoad, db, now, calls, lastPersisted>>
       /\ UNCHANGED <<fkVars, regVars, ddlVars, fieldVars, aliasVars, nodeVars>>

\* an error path that runs the bookkeeping of a successful save
FailedMarksSaved(i, fail) ==
    LET r == pending[i]
        a == Answer(r, fail)
        op == [Op("failed") EXCEPT !.api = r.api, !.wrote = r.kind,
                                   !.outcome = a.state, !.given = r.onError]
    IN /\ a.state \in {"err", "notfound"}
       /\ pending' = Without(pending, i)
       /\ sinceSave' = IF r.kind = "insert" /\ sinceSave = "inflight"
                       THEN "failed" ELSE sinceSave
       /\ lastOp' = IF a.state = "notfound" /\ r.onNotFound
                    THEN [op EXCEPT !.events = <<"onNotFound">>]
                    ELSE CallbackOrThrow(op, r.onError)
       /\ isSavedToDB' = (isSavedToDB \/ r.api = "save")
       /\ dirty' = IF r.api = "save" THEN {} ELSE dirty
       /\ UNCHANGED <<fields, isLoadedFromDB, lastLoadTime,
                      onFirstLoad, db, now, calls, lastPersisted>>
       /\ UNCHANGED <<fkVars, regVars, ddlVars, fieldVars, aliasVars, nodeVars>>

\* the driver answered with an error, or findOne found no document
Failed(i, fail) ==
    LET r == pending[i]
        a == Answer(r, fail)
        op == [Op("failed") EXCEPT !.api = r.api, !.wrote = r.kind,
                                   !.outcome = a.state, !.given = r.onError]
    IN /\ a.state \in {"err", "notfound"}
       /\ pending' = Without(pending, i)
       /\ sinceSave' = IF r.kind = "insert" /\ sinceSave = "inflight"
                       THEN "failed" ELSE sinceSave
       /\ lastOp' = IF a.state = "notfound" /\ r.onNotFound
                    THEN [op EXCEPT !.events = <<"onNotFound">>]
                    ELSE CallbackOrThrow(op, r.onError)
       /\ UNCHANGED <<fields, dirty, isLoadedFromDB, isSavedToDB, lastLoadTime,
                      onFirstLoad, db, now, calls, lastPersisted>>
       /\ UNCHANGED <<fkVars, regVars, ddlVars, fieldVars, aliasVars, nodeVars>>

----------------------------------------------------------------------------
(* The clock *)

Tick ==
    /\ now < MaxTime
    /\ now' = now + 1
    /\ lastOp' = Op("tick")
    /\ UNCHANGED <<fields, dirty, isLoadedFromDB, isSavedToDB, lastLoadTime,
                   onFirstLoad, db, pending, calls, lastPersisted, sinceSave>>
    /\ UNCHANGED <<fkVars, regVars, ddlVars, fieldVars, aliasVars, nodeVars>>

----------------------------------------------------------------------------

\* the continuations a caller passes: all of them, or none
Continuations == {TRUE, FALSE}

Next ==
    \/ \E f \in FieldNames : \E value \in AssignValues(f) : Assign(f, value)
    \/ \E f \in FieldNames : SetToDefault(f)
    \/ \E given \in Continuations : \E force \in BOOLEAN : Save(given, given, force)
    \/ \E given \in Continuations : Reload(given, given)
    \/ \E query \in LoadQueries : \E given, onNotFound \in Continuations :
          Load(query, given, onNotFound, given)
    \/ \E value \in Continuations : SetOnLoaded(value)
    \/ \E given \in Continuations : Delete(given, given)
    \/ \E i \in 1..Len(pending) : SaveDone(i)
    \/ \E i \in 1..Len(pending) : LoadDone(i)
    \/ \E i \in 1..Len(pending) : DeleteDone(i)
    \/ \E i \in 1..Len(pending) : \E fail \in BOOLEAN : Failed(i, fail)
    \/ Tick

Spec == Init /\ [][Next]_vars

----------------------------------------------------------------------------
(* The class-level API of ModelClassWrapper that takes no instance:        *)
(* delete(query, ...) and deleteMany(query, ...), beside an instance that  *)
(* application code holds and saves                                        *)

\* the part of the wrapper's state that belongs to the instance in memory
instanceVars == <<fields, dirty, isLoadedFromDB, isSavedToDB, lastLoadTime, onFirstLoad>>

\* Model.mongore.delete(query, onSuccess, onError)
ClassDelete(query, onSuccess, onError) ==
    /\ calls < MaxCalls
    /\ calls' = calls + 1
    /\ Len(pending) < MaxPending
    /\ pending' = Append(pending,
           Request("classDelete", "delete", NormalizeQuery(query), EmptyObj,
                   onSuccess, onError, FALSE))
    /\ lastOp' = [Op("classDelete") EXCEPT !.v = query, !.wrote = "delete",
                      !.given = onSuccess, !.events = <<"deleteOne">>]
    /\ UNCHANGED <<instanceVars, db, now, lastPersisted, sinceSave>>
    /\ UNCHANGED <<fkVars, regVars, ddlVars, fieldVars, aliasVars, nodeVars>>

\* Model.mongore.deleteMany(query, onSuccess, onError)
ClassDeleteMany(query, onSuccess, onError) ==
    /\ calls < MaxCalls
    /\ calls' = calls + 1
    /\ Len(pending) < MaxPending
    /\ pending' = Append(pending,
           Request("classDeleteMany", "deleteMany", NormalizeQuery(query), EmptyObj,
                   onSuccess, onError, FALSE))
    /\ lastOp' = [Op("classDeleteMany") EXCEPT !.v = query, !.wrote = "deleteMany",
                      !.given = onSuccess, !.events = <<"deleteMany">>]
    /\ UNCHANGED <<instanceVars, db, now, lastPersisted, sinceSave>>
    /\ UNCHANGED <<fkVars, regVars, ddlVars, fieldVars, aliasVars, nodeVars>>

\* a completion that also runs the instance hook of the instance in memory
ClassDoneEventsWithHook(onSuccess) ==
    <<"afterDeletedFromDB">> \o (IF onSuccess THEN <<"onSuccess(res)">> ELSE <<>>)

\* what MongoConnection runs when deleteOne / deleteMany is answered without
\* error: the caller's onSuccess, which the wrapper passed through as it was
ClassDoneEvents(onSuccess) == IF onSuccess THEN <<"onSuccess(res)">> ELSE <<>>

\* deleteOne / deleteMany of the class-level API answered without error
ClassDone(i) ==
    LET r == pending[i]
        a == Answer(r, FALSE)
    IN /\ r.api \in {"classDelete", "classDeleteMany"} /\ a.state = "ok"
       /\ pending' = Without(pending, i)
       /\ db' = a.db
       /\ lastOp' = [Op("classDone") EXCEPT !.api = r.api, !.wrote = r.kind,
                        !.outcome = "ok", !.given = r.onSuccess,
                        !.events = ClassDoneEvents(r.onSuccess)]
       /\ UNCHANGED <<instanceVars, now, calls, lastPersisted, sinceSave>>
       /\ UNCHANGED <<fkVars, regVars, ddlVars, fieldVars, aliasVars, nodeVars>>

NextClass ==
    \/ \E f \in FieldNames : \E value \in AssignValues(f) : Assign(f, value)
    \/ \E given \in Continuations : Save(given, given, FALSE)
    \/ \E query \in LoadQueries : \E given \in Continuations :
          ClassDelete(query, given, given)
    \/ \E query \in DeleteManyQueries : \E given \in Continuations :
          ClassDeleteMany(query, given, given)
    \/ \E i \in 1..Len(pending) : SaveDone(i)
    \/ \E i \in 1..Len(pending) : ClassDone(i)
    \/ \E i \in 1..Len(pending) : \E fail \in BOOLEAN : Failed(i, fail)

SpecClass == Init /\ [][NextClass]_vars

----------------------------------------------------------------------------
(* Creation and removal of the model's collection *)

\* a model whose descriptors were constructed with any index options
InitDDL ==
    /\ aliased = ""
    /\ attrs = EmptyObj
    /\ NoNodes
    /\ InitWrapper
    /\ instances = <<>>
    /\ board = NewBoard
    /\ boardStore = EmptyStore
    /\ lookups = <<>>
    /\ fkOp = FkOp("new")
    /\ classMongore = FALSE
    /\ prototype = NoClass
    /\ created = 0
    /\ regOp = RegOp("class")
    /\ indexDecl \in [FieldNames -> IndexOptions]
    /\ \A f \in FieldNames : indexDecl[f].bounded => Descriptor(f).type = "numeric"
    /\ collection = NoCollection
    /\ ddl = <<>>
    /\ ddlTrace = <<>>
    /\ fieldData = FieldData("generic")
    /\ fieldOwner = EmptyObj
    /\ fieldOp = FieldOp("none")

\* Model.mongore.createCollection(onSuccess, onError)
CreateCollection(onSuccess, onError) ==
    /\ Len(ddlTrace) < MaxDdl
    /\ IF CollectionOptionsThrow(indexDecl)
       THEN /\ ddl' = ddl
            /\ ddlTrace' = Append(ddlTrace,
                                  Trace("createCollection", onSuccess, <<"throw">>))
       ELSE /\ ddl' = Append(ddl, DdlRequest(Len(ddlTrace) + 1, "createCollection",
                                             FALSE, <<>>, onSuccess, onError))
            /\ ddlTrace' = Append(ddlTrace,
                                  Trace("createCollection", onSuccess, <<"createCollection">>))
    /\ UNCHANGED <<indexDecl, collection>>
    /\ UNCHANGED <<wrapperVars, fkVars, regVars, fieldVars, aliasVars, nodeVars>>

\* Model.mongore.dropCollection(onSuccess, onError)
DropCollection(onSuccess, onError) ==
    /\ Len(ddlTrace) < MaxDdl
    /\ ddl' = Append(ddl, DdlRequest(Len(ddlTrace) + 1, "drop", FALSE, <<>>,
                                     onSuccess, onError))
    /\ ddlTrace' = Append(ddlTrace, Trace("dropCollection", onSuccess, <<"drop">>))
    /\ UNCHANGED <<indexDecl, collection>>
    /\ UNCHANGED <<wrapperVars, fkVars, regVars, fieldVars, aliasVars, nodeVars>>

\* the collection after the driver carried out request r
Carried(r) ==
    IF r.kind = "createCollection" THEN [collection EXCEPT !.exists = TRUE]
    ELSE IF r.kind = "drop" THEN NoCollection
    ELSE IF r.unique
    THEN [collection EXCEPT !.exists = TRUE,
             !.uniqueIndexes = @ \cup {r.indexes[j] : j \in 1..Len(r.indexes)}]
    ELSE [collection EXCEPT !.exists = TRUE,
             !.indexes = @ \cup {r.indexes[j] : j \in 1..Len(r.indexes)}]

\* the driver answered request i without error: the success callback runs,
\* which for createCollection and createIndex is the next stage
DdlDone(i) ==
    LET r == ddl[i]
        next == IF r.kind = "createCollection"
                THEN CreateIndex(r.call, 1, r.onSuccess, r.onError)
                ELSE IF r.kind = "createIndex"
                THEN CreateIndex(r.call, StageOf(r) + 1, r.onSuccess, r.onError)
                ELSE [requests |-> <<>>,
                      events |-> IF r.onSuccess THEN <<"onSuccess">> ELSE <<>>]
    IN /\ ~(r.kind = "drop" /\ ~collection.exists)
       /\ collection' = Carried(r)
       /\ ddl' = Without(ddl, i) \o next.requests
       /\ ddlTrace' = [ddlTrace EXCEPT ![r.call].events = @ \o <<"ok">> \o next.events]
       /\ UNCHANGED indexDecl
       /\ UNCHANGED <<wrapperVars, fkVars, regVars, fieldVars, aliasVars, nodeVars>>

\* the driver answered request i with an error (a drop of a collection
\* that does not exist is one): callbackOrThrow
DdlFailed(i) ==
    LET r == ddl[i]
    IN /\ ddl' = Without(ddl, i)
       /\ ddlTrace' = [ddlTrace EXCEPT ![r.call].events =
                          @ \o <<"err", IF r.onError THEN "onError" ELSE "throw">>]
       /\ UNCHANGED <<indexDecl, collection>>
       /\ UNCHANGED <<wrapperVars, fkVars, regVars, fieldVars, aliasVars, nodeVars>>

NextDDL ==
    \/ \E given \in Continuations : CreateCollection(given, given)
    \/ \E given \in Continuations : DropCollection(given, given)
    \/ \E i \in 1..Len(ddl) : DdlDone(i)
    \/ \E i \in 1..Len(ddl) : DdlFailed(i)

SpecDDL == InitDDL /\ [][NextDDL]_vars

----------------------------------------------------------------------------
(* Every operation that issues storage requests, side by side: the         *)
(* instance API, the class-level API and the collection API                *)

\* a model with a non-unique and a unique index
BothBatches ==
    [f \in FieldNames |-> [index |-> TRUE, unique |-> f = "_id", bounded |-> FALSE]]

\* the model of the instance: score is a NumericField with min and max
Registered ==
    [f \in FieldNames |-> [index |-> FALSE, unique |-> FALSE,
                           bounded |-> Descriptor(f).hasMin \/ Descriptor(f).hasMax]]

InitSignals ==
    /\ aliased = ""
    /\ \E d \in {NoIndexes, BothBatches, Registered} : InitDDL /\ indexDecl = d

\* the calls application code has made so far
Issued == calls + Len(ddlTrace)

NextSignals ==
    \/ /\ Issued < MaxCalls
       /\ \/ Assign("_id", Num(1))
          \/ \E given \in Continuations : \E force \in BOOLEAN : Save(given, given, force)
          \/ \E given \in Continuations : Reload(given, given)
          \/ \E given, onNotFound \in Continuations :
                Load(Num(1), given, onNotFound, given)
          \/ \E given \in Continuations : Delete(given, given)
          \/ \E given \in Continuations : ClassDelete(Num(1), given, given)
          \/ \E given \in Continuations : ClassDeleteMany(Num(1), given, given)
          \/ \E given \in Continuations : CreateCollection(given, given)
          \/ \E given \in Continuations : DropCollection(given, given)
    \/ \E i \in 1..Len(pending) : SaveDone(i)
    \/ \E i \in 1..Len(pending) : LoadDone(i)
    \/ \E i \in 1..Len(pending) : DeleteDone(i)
    \/ \E i \in 1..Len(pending) : ClassDone(i)
    \/ \E i \in 1..Len(pending) : \E fail \in BOOLEAN : Failed(i, fail)
    \/ \E i \in 1..Len(ddl) : DdlDone(i)
    \/ \E i \in 1..Len(ddl) : DdlFailed(i)

SpecSignals == InitSignals /\ [][NextSignals]_vars

----------------------------------------------------------------------------
(* A Board with a foreign key to User: construction and assignment of      *)
(* references, save and load of the Board, resolution of the reference     *)

\* instances that the callbacks of pending load() requests will construct
Reserved == Cardinality({i \in 1..Len(lookups) : lookups[i].api = "load"})

\* what application code may hold as a value for creator
CreatorValues == {Null, Undef, Num(1)} \cup {Ref(h) : h \in 1..Len(instances)}

\* the store holds a Board document or none, whose creator is null, the key
\* of the stored User or a key no stored User has, and one User or none
InitFK ==
    /\ aliased = ""
    /\ attrs = EmptyObj
    /\ NoNodes
    /\ InitWrapper
    /\ instances = <<>>
    /\ board = NewBoard
    /\ boardStore \in {[exists |-> e, creator |-> c, users |-> u] :
                          e \in BOOLEAN, c \in StoredKeys,
                          u \in {{}, {Num(1)}}}
    /\ boardStore.exists \/ boardStore.creator = Null
    /\ lookups = <<>>
    /\ fkOp = FkOp("new")
    /\ classMongore = FALSE
    /\ prototype = NoClass
    /\ created = 0
    /\ regOp = RegOp("class")
    /\ indexDecl = NoIndexes
    /\ collection = NoCollection
    /\ ddl = <<>>
    /\ ddlTrace = <<>>
    /\ fieldData = FieldData("generic")
    /\ fieldOwner = EmptyObj
    /\ fieldOp = FieldOp("none")

\* new User() / new Tag()
NewUser(cls) ==
    /\ Len(instances) + Reserved < MaxInstances
    /\ instances' = Append(instances, Inst(cls))
    /\ fkOp' = [FkOp("new") EXCEPT !.target = Len(instances) + 1]
    /\ UNCHANGED <<board, boardStore, lookups>>
    /\ UNCHANGED <<wrapperVars, regVars, ddlVars, fieldVars, aliasVars, nodeVars>>

\* user._id = key, through the generated setter of the field _id
SetUserId(h, key) ==
    /\ DeclaresId(instances[h].cls)
    /\ ~IsEqual("_id", key, instances[h].id)
    /\ instances' = [instances EXCEPT ![h].id = key]
    /\ fkOp' = [FkOp("setId") EXCEPT !.target = h, !.a = key]
    /\ UNCHANGED <<board, boardStore, lookups>>
    /\ UNCHANGED <<wrapperVars, regVars, ddlVars, fieldVars, aliasVars, nodeVars>>

\* board.creator = value
AssignCreator(value) ==
    /\ board' = BoardSetter(board, value)
    /\ fkOp' = [FkOp("assign") EXCEPT !.a = value]
    /\ UNCHANGED <<instances, boardStore, lookups>>
    /\ UNCHANGED <<wrapperVars, regVars, ddlVars, fieldVars, aliasVars, nodeVars>>

\* descriptor.isEqual(a, b), called on its own
IsEqualCall(a, b) ==
    /\ fkOp' = [FkOp("isEqual") EXCEPT !.a = a, !.b = b, !.result = FKIsEqual(a, b)]
    /\ UNCHANGED <<board, instances, boardStore, lookups>>
    /\ UNCHANGED <<wrapperVars, regVars, ddlVars, fieldVars, aliasVars, nodeVars>>

\* descriptor.clean(board, value), called on its own, for a creator field
\* declared with or without canBeNull
CleanCall(canBeNull, value) ==
    LET cleaned == FKClean([BoardCreator EXCEPT !.canBeNull = canBeNull], value)
    IN /\ fkOp' = [FkOp("clean") EXCEPT !.a = value, !.canBeNull = canBeNull,
                        !.threw = ~cleaned.ok, !.val = cleaned.val]
       /\ UNCHANGED <<board, instances, boardStore, lookups>>
       /\ UNCHANGED <<wrapperVars, regVars, ddlVars, fieldVars, aliasVars, nodeVars>>

\* board.mongore.save(onSuccess, onError, forceSave)
SaveBoard(given, force) ==
    LET inDB == board.isLoadedFromDB \/ board.isSavedToDB
        kind == IF inDB THEN (IF force \/ board.dirty THEN "update" ELSE "none")
                ELSE "insert"
        hasCreator == IF inDB THEN board.dirty ELSE TRUE
        cleaned == FKClean(BoardCreator, board.creator)
        op == [FkOp("save") EXCEPT !.given = given]
    IN /\ UNCHANGED <<board, instances, boardStore>>
       /\ UNCHANGED <<wrapperVars, regVars, ddlVars, fieldVars, aliasVars, nodeVars>>
       /\ IF kind = "none"
          THEN /\ lookups' = lookups
               /\ fkOp' = [op EXCEPT !.events = <<"beforeSaveToDB", "skip">>]
          ELSE IF hasCreator /\ ~cleaned.ok
          THEN /\ lookups' = lookups
               /\ fkOp' = [op EXCEPT !.threw = TRUE,
                                      !.events = <<"beforeSaveToDB", "throw">>]
          ELSE /\ Len(lookups) < MaxLookups
               /\ lookups' = Append(lookups,
                      FkRequest("save", kind, 0, Undef, hasCreator,
                                IF hasCreator THEN cleaned.val ELSE Undef, given, FALSE))
               /\ fkOp' = [op EXCEPT !.kind = kind,
                               !.events = <<"beforeSaveToDB", "toDocument",
                                   IF kind = "insert" THEN "insertOne" ELSE "updateOne">>]

\* insertOne / updateOne of the Board answered without error
BoardSaved(i) ==
    LET r == lookups[i]
    IN /\ r.api = "save"
       /\ ~(r.kind = "insert" /\ boardStore.exists)
       /\ lookups' = Without(lookups, i)
       /\ boardStore' =
             IF r.kind = "insert"
             THEN [boardStore EXCEPT !.exists = TRUE, !.creator = r.creator]
             ELSE IF boardStore.exists /\ r.hasCreator
             THEN [boardStore EXCEPT !.creator = r.creator]
             ELSE boardStore
       /\ board' = [board EXCEPT !.isSavedToDB = TRUE, !.dirty = FALSE]
       /\ fkOp' = [FkOp("saveDone") EXCEPT !.given = r.given, !.kind = r.kind,
                       !.events = <<"isSavedToDB", "clearDirty", "setMetadata",
                                    "afterSavedToDB">>
                           \o (IF r.given THEN <<"onSuccess(object)">> ELSE <<>>)]
       /\ UNCHANGED instances
       /\ UNCHANGED <<wrapperVars, regVars, ddlVars, fieldVars, aliasVars, nodeVars>>

\* Board.mongore.load(key, onSuccess, onNotFound, onError): the model
\* follows the Board it returns
LoadBoard(given, onNotFound) ==
    /\ \A i \in 1..Len(lookups) : lookups[i].target # 0
    /\ Len(lookups) < MaxLookups
    /\ Len(instances) + Reserved < MaxInstances
    /\ board' = NewBoard
    /\ lookups' = Append(lookups,
           FkRequest("load", "find", 0, NormalizeQuery(Str(1)), FALSE, Undef, given,
                     onNotFound))
    /\ fkOp' = [FkOp("load") EXCEPT !.given = given, !.events = <<"new", "findOne">>]
    /\ UNCHANGED <<instances, boardStore>>
    /\ UNCHANGED <<wrapperVars, regVars, ddlVars, fieldVars, aliasVars, nodeVars>>

\* findOne of the Board answered with its document: _setFromDBDocument
\* runs creator's initAfterLoad, then _afterLoadFromDB, then onSuccess
BoardLoaded(i) ==
    LET r == lookups[i]
        h == Len(instances) + 1
        init == FKInitAfterLoad(BoardCreator, boardStore.creator, h)
    IN /\ r.api = "load" /\ boardStore.exists
       /\ instances' = Append(instances, init.instance)
       /\ lookups' = Without(lookups, i) \o init.requests
       /\ board' = [board EXCEPT !.creator = Ref(h), !.dirty = FALSE,
                                   !.isLoadedFromDB = TRUE]
       /\ fkOp' = [FkOp("loadDone") EXCEPT !.given = r.given, !.target = h,
                       !.events = <<"load(creator)", "setFields", "isLoadedFromDB",
                                    "clearDirty", "afterLoadedFromDB">>
                           \o (IF r.given THEN <<"onSuccess(object)">> ELSE <<>>)]
       /\ UNCHANGED boardStore
       /\ UNCHANGED <<wrapperVars, regVars, ddlVars, fieldVars, aliasVars, nodeVars>>

\* the stored User keys a filter matches: a null filter matches them all
MatchingUsers(filter) ==
    IF filter = Null THEN boardStore.users
    ELSE {k \in boardStore.users : k = Get(filter, "_id")}

\* the findOne issued by creator's initAfterLoad answered with the document
\* of key k: the referenced instance is hydrated; no continuation was given
UserLoaded(i, k) ==
    LET r == lookups[i]
    IN /\ r.api = "fk" /\ k \in MatchingUsers(r.query)
       /\ lookups' = Without(lookups, i)
       /\ instances' = [instances EXCEPT ![r.target].id = k,
                                          ![r.target].isLoadedFromDB = TRUE]
       /\ fkOp' = [FkOp("fkDone") EXCEPT !.target = r.target,
                       !.events = <<"setFields", "isLoadedFromDB", "clearDirty",
                                    "afterLoadedFromDB">>]
       /\ UNCHANGED <<board, boardStore>>
       /\ UNCHANGED <<wrapperVars, regVars, ddlVars, fieldVars, aliasVars, nodeVars>>

\* a request of this world answered with an error, or a findOne that found
\* no document
FkFailed(i, fail) ==
    LET r == lookups[i]
        notFound == \/ r.api = "load" /\ ~boardStore.exists
                    \/ r.api = "fk" /\ MatchingUsers(r.query) = {}
        duplicate == r.api = "save" /\ r.kind = "insert" /\ boardStore.exists
        op == [FkOp("failed") EXCEPT !.target = r.target, !.given = r.given,
                                     !.kind = r.api]
    IN /\ fail \/ notFound \/ duplicate
       /\ lookups' = Without(lookups, i)
       /\ fkOp' = IF ~fail /\ notFound /\ r.onNotFound
                   THEN [op EXCEPT !.events = <<"onNotFound">>]
                   ELSE IF r.given THEN [op EXCEPT !.events = <<"onError">>]
                   ELSE [op EXCEPT !.threw = TRUE, !.events = <<"throw">>]
       /\ UNCHANGED <<board, instances, boardStore>>
       /\ UNCHANGED <<wrapperVars, regVars, ddlVars, fieldVars, aliasVars, nodeVars>>

\* a Board is loaded, its reference resolved, reassigned and saved; a User
\* that application code constructs gets a key no stored User has
NextFK ==
    \/ NewUser("User")
    \/ \E h \in 1..Len(instances) : SetUserId(h, Num(2))
    \/ \E value \in CreatorValues \ {Undef, Num(1)} : AssignCreator(value)
    \/ \E force \in BOOLEAN : SaveBoard(TRUE, force)
    \/ \E given \in BOOLEAN : LoadBoard(given, given)
    \/ \E i \in 1..Len(lookups) : BoardSaved(i)
    \/ \E i \in 1..Len(lookups) : BoardLoaded(i)
    \/ \E i \in 1..Len(lookups) : \E k \in UserKeys : UserLoaded(i, k)
    \/ \E i \in 1..Len(lookups) : \E fail \in BOOLEAN : FkFailed(i, fail)

SpecFK == InitFK /\ [][NextFK]_vars

\* the descriptor's isEqual and clean, and the setter, on references that
\* application code constructs
NextFKField ==
    \/ \E cls \in Models : NewUser(cls)
    \/ \E h \in 1..Len(instances) : \E key \in UserKeys : SetUserId(h, key)
    \/ \E value \in CreatorValues : AssignCreator(value)
    \/ \E a, b \in CreatorValues : IsEqualCall(a, b)
    \/ \E canBeNull \in BOOLEAN : \E value \in CreatorValues : CleanCall(canBeNull, value)

SpecFKField == Init /\ [][NextFKField]_vars

----------------------------------------------------------------------------
(* Registration: a class extending Model is declared with some properties  *)
(* of its own, then buildModel is called on it and instances are made      *)

InitReg ==
    /\ aliased = ""
    /\ attrs = EmptyObj
    /\ NoNodes
    /\ InitWrapper
    /\ instances = <<>>
    /\ board = NewBoard
    /\ boardStore = EmptyStore
    /\ lookups = <<>>
    /\ fkOp = FkOp("new")
    /\ classMongore = FALSE
    /\ prototype \in [Names -> {"absent", "method", "falsy"}]
    /\ created = 0
    /\ regOp = RegOp("class")
    /\ indexDecl = NoIndexes
    /\ collection = NoCollection
    /\ ddl = <<>>
    /\ ddlTrace = <<>>
    /\ fieldData = FieldData("generic")
    /\ fieldOwner = EmptyObj
    /\ fieldOp = FieldOp("none")

\* cls.buildModel({fields: decl})
BuildModel(decl) ==
    LET defined == DefineFields(prototype, decl, 1)
        op == [RegOp("buildModel") EXCEPT !.decl = decl,
                  !.existing = {n \in Names : \E i \in 1..Len(decl) :
                                   decl[i] = n /\ prototype[n] # "absent"}]
    IN /\ UNCHANGED created
       /\ UNCHANGED <<wrapperVars, fkVars, ddlVars, fieldVars, aliasVars, nodeVars>>
       /\ IF classMongore
          THEN /\ regOp' = [op EXCEPT !.threw = TRUE]
               /\ UNCHANGED <<classMongore, prototype>>
          ELSE /\ classMongore' = TRUE
               /\ prototype' = defined.prototype
               /\ regOp' = [op EXCEPT !.threw = defined.threw]

\* new cls()
NewModel ==
    /\ created < MaxCreated
    /\ IF ~classMongore
       THEN /\ regOp' = [RegOp("new") EXCEPT !.threw = TRUE]
            /\ UNCHANGED created
       ELSE /\ regOp' = RegOp("new")
            /\ created' = created + 1
    /\ UNCHANGED <<classMongore, prototype>>
    /\ UNCHANGED <<wrapperVars, fkVars, ddlVars, fieldVars, aliasVars, nodeVars>>

NextReg ==
    \/ \E decl \in Declarations : BuildModel(decl)
    \/ NewModel

SpecReg == InitReg /\ [][NextReg]_vars

----------------------------------------------------------------------------
(* Field descriptors called on their own: application code holds a         *)
(* descriptor of one of the configurations below and calls its clean and   *)
(* its initAfterLoad with an owner and a value                             *)

\* the strings "ab" and "abcd"
Ab == Text(<<"a", "b">>)
Abcd == Text(<<"a", "b", "c", "d">>)

\* the values handed to a descriptor, "a@b.co" and "" among them; Ref(1) is
\* the User of InitFields
FieldValues ==
    {Null, Undef, Num(0), Num(1), Num(3), Infinity, Str(1), Str(3), Ab, Abcd,
     Text(<<"a", "@", "b", ".", "c", "o">>), Text(<<>>), Bool(TRUE), Bool(FALSE), Date(1),
     List(<<>>), List(<<Num(1), Num(1)>>), List(<<Str(1), Ab>>),
     List(<<Num(1), Num(3), Num(3)>>), List(<<Num(3), Str(3), Num(1), Num(3)>>),
     Dict(<<"a", "b">>, <<Str(1), Ab>>), Dict(<<"b", "a">>, <<Ab, Str(1)>>),
     Dict(<<"a", "b">>, <<Ab, Ab>>), Dict(<<"a">>, <<Num(1)>>),
     Dict(<<"a", "b", "c">>, <<Num(1), Ab, Ab>>), EmptyObj, [k \in {"a"} |-> Num(1)], Ref(1)}

\* the descriptors application code configures: every variant without
\* options and with some, each with and without canBeNull, with no alias,
\* with an alias and with a read-only alias
FieldDescriptors ==
    LET Configured ==
            {FieldData(type) :
                type \in {"generic", "boolean", "numeric", "string", "email", "date",
                          "list", "dictionary", "foreignKey"}}
            \cup {[FieldData("numeric") EXCEPT !.parser = "parseInt"],
                  [FieldData("numeric") EXCEPT !.hasMin = TRUE, !.min = 1,
                                               !.hasMax = TRUE, !.max = 2],
                  [FieldData("string") EXCEPT !.hasMaxLength = TRUE, !.maxLength = 2],
                  [FieldData("string") EXCEPT !.hasMinLength = TRUE, !.minLength = 2],
                  [FieldData("date") EXCEPT !.autoNow = TRUE],
                  [FieldData("choice") EXCEPT !.choices = {Str(1), Ab}],
                  [FieldData("choice") EXCEPT !.choices = {Num(1), Num(3)}],
                  [FieldData("list") EXCEPT !.hasMaxItems = TRUE, !.maxItems = 1],
                  [FieldData("list") EXCEPT !.removeDuplicates = TRUE],
                  [FieldData("list") EXCEPT !.itemsType = "numeric"],
                  [FieldData("list") EXCEPT !.itemsType = "numeric",
                                            !.removeDuplicates = TRUE],
                  [FieldData("dictionary") EXCEPT
                      !.hasSchema = TRUE, !.schemaKeys = <<"a", "b">>,
                      !.schemaTypes = <<"numeric", "string">>,
                      !.default = Dict(<<"a", "b">>, <<Num(0), Text(<<>>)>>)]}
    IN {[d EXCEPT !.canBeNull = c, !.source = s[1], !.sourceReadonly = s[2]] :
           d \in Configured, c \in BOOLEAN,
           s \in {<<"", FALSE>>, <<"alias", FALSE>>, <<"alias", TRUE>>}}

InitFields ==
    /\ aliased = ""
    /\ attrs = EmptyObj
    /\ NoNodes
    /\ InitWrapper
    /\ instances = <<[Inst("User") EXCEPT !.id = Num(1)]>>
    /\ board = NewBoard
    /\ boardStore = EmptyStore
    /\ lookups = <<>>
    /\ fkOp = FkOp("new")
    /\ classMongore = FALSE
    /\ prototype = NoClass
    /\ created = 0
    /\ regOp = RegOp("class")
    /\ indexDecl = NoIndexes
    /\ collection = NoCollection
    /\ ddl = <<>>
    /\ ddlTrace = <<>>
    /\ fieldData \in FieldDescriptors
    /\ fieldOwner = EmptyObj
    /\ fieldOp = [FieldOp("none") EXCEPT !.d = fieldData]

\* owner.alias = value
SetAlias(value) ==
    /\ Get(fieldOwner, "alias") # value
    /\ fieldOwner' = Put(fieldOwner, "alias", value)
    /\ fieldOp' = [FieldOp("set") EXCEPT !.d = fieldData, !.value = value]
    /\ UNCHANGED fieldData
    /\ UNCHANGED <<wrapperVars, fkVars, regVars, ddlVars, aliasVars, nodeVars>>

\* descriptor.clean(owner, value)
CleanField(value) ==
    LET d == fieldData
        cleaned == VariantClean(d, fieldOwner, value, now)
    IN /\ fieldOp' = [FieldOp("clean") EXCEPT !.d = d, !.value = value,
                          !.ok = cleaned.ok, !.val = cleaned.val]
       /\ UNCHANGED <<fieldData, fieldOwner>>
       /\ UNCHANGED <<wrapperVars, fkVars, regVars, ddlVars, aliasVars, nodeVars>>

\* descriptor.initAfterLoad(owner, value) for a value clean accepts (its
\* clean is kept in ok and val): a ForeignKeyField has the model load the
\* value first, then Field.initAfterLoad sets the aliased attribute
InitAfterLoadCall(value) ==
    LET d == fieldData
        cleaned == VariantClean(d, fieldOwner, value, now)
        h == Len(instances) + 1
        init == FKInitAfterLoad(d, value, h)
        loaded == IF d.type = "foreignKey" THEN Ref(h) ELSE value
    IN /\ cleaned.ok
       /\ IF d.type = "foreignKey"
          THEN /\ Len(instances) < MaxInstances
               /\ Len(lookups) < MaxLookups
               /\ instances' = Append(instances, init.instance)
               /\ lookups' = lookups \o init.requests
          ELSE UNCHANGED <<instances, lookups>>
       /\ fieldOwner' = IF d.source # "" /\ ~d.sourceReadonly
                        THEN Put(fieldOwner, d.source, loaded)
                        ELSE fieldOwner
       /\ fieldOp' = [FieldOp("initAfterLoad") EXCEPT !.d = d, !.value = value,
                          !.ok = cleaned.ok, !.val = cleaned.val, !.loaded = loaded]
       /\ UNCHANGED fieldData
       /\ UNCHANGED <<board, boardStore, fkOp>>
       /\ UNCHANGED <<wrapperVars, regVars, ddlVars, aliasVars, nodeVars>>

\* descriptor.clean(owner, loaded) on what the initAfterLoad just returned
CleanLoaded ==
    /\ fieldOp.op = "initAfterLoad"
    /\ fieldOp' = [fieldOp EXCEPT !.op = "roundTrip",
                       !.again = VariantClean(fieldData, fieldOwner, fieldOp.loaded, now)]
    /\ UNCHANGED <<fieldData, fieldOwner>>
    /\ UNCHANGED <<wrapperVars, fkVars, regVars, ddlVars, aliasVars, nodeVars>>

NextFields ==
    \/ \E value \in {Null, Num(1), Ab} : SetAlias(value)
    \/ \E value \in FieldValues : CleanField(value)
    \/ \E value \in FieldValues : InitAfterLoadCall(value)
    \/ CleanLoaded

SpecFields == InitFields /\ [][NextFields]_vars

----------------------------------------------------------------------------
(* A model one of whose fields is declared with {source: "name"}, and      *)
(* application code that sets instance.name                                *)

\* new Dog(name): the Model constructor, then this.name = name
InitAlias ==
    /\ aliased \in FieldNames
    /\ attrs \in {[k \in {"name"} |-> value] : value \in {Num(1), Num(2)}}
    /\ NoNodes
    /\ InitWrapper
    /\ instances = <<>>
    /\ board = NewBoard
    /\ boardStore = EmptyStore
    /\ lookups = <<>>
    /\ fkOp = FkOp("new")
    /\ classMongore = FALSE
    /\ prototype = NoClass
    /\ created = 0
    /\ regOp = RegOp("class")
    /\ indexDecl = NoIndexes
    /\ collection = NoCollection
    /\ ddl = <<>>
    /\ ddlTrace = <<>>
    /\ fieldData = FieldData("generic")
    /\ fieldOwner = EmptyObj
    /\ fieldOp = FieldOp("none")

\* instance.name = value: a plain attribute, no generated setter runs
SetName(value) ==
    /\ Get(attrs, "name") # value
    /\ attrs' = Put(attrs, "name", value)
    /\ lastOp' = [Op("setName") EXCEPT !.v = value]
    /\ UNCHANGED <<fields, dirty, isLoadedFromDB, isSavedToDB, lastLoadTime,
                   onFirstLoad, db, pending, now, calls, lastPersisted, sinceSave,
                   aliased>>
    /\ UNCHANGED <<fkVars, regVars, ddlVars, fieldVars, nodeVars>>

NextAlias ==
    \/ \E value \in {Num(1), Num(2)} : SetName(value)
    \/ \E f \in FieldNames : \E value \in AssignValues(f) : Assign(f, value)
    \/ \E force \in BOOLEAN : Save(TRUE, TRUE, force)
    \/ Reload(TRUE, TRUE)
    \/ Delete(TRUE, TRUE)
    \/ \E i \in 1..Len(pending) : SaveDone(i)
    \/ \E i \in 1..Len(pending) : LoadDone(i)
    \/ \E i \in 1..Len(pending) : DeleteDone(i)
    \/ \E i \in 1..Len(pending) : \E fail \in BOOLEAN : Failed(i, fail)

SpecAlias == InitAlias /\ [][NextAlias]_vars

----------------------------------------------------------------------------
(* Foreign keys that refer to documents of the same model: Node declares   *)
(* next: new ForeignKeyField({model: Node}), and a stored Node holds under *)
(* next the key of a Node, null, or no such key at all                     *)

\* some Nodes are stored; application code has loaded none
InitChain ==
    /\ aliased = ""
    /\ attrs = EmptyObj
    /\ \E keys \in (SUBSET UserKeys) \ {{}} :
          nodeStore \in [keys -> {EmptyObj} \cup
                                 {[k \in {"next"} |-> v] : v \in StoredKeys}]
    /\ nodeLoads = <<>>
    /\ nodeCount = 0
    /\ nodeOp = "none"
    /\ InitWrapper
    /\ instances = <<>>
    /\ board = NewBoard
    /\ boardStore = EmptyStore
    /\ lookups = <<>>
    /\ fkOp = FkOp("new")
    /\ classMongore = FALSE
    /\ prototype = NoClass
    /\ created = 0
    /\ regOp = RegOp("class")
    /\ indexDecl = NoIndexes
    /\ collection = NoCollection
    /\ ddl = <<>>
    /\ ddlTrace = <<>>
    /\ fieldData = FieldData("generic")
    /\ fieldOwner = EmptyObj
    /\ fieldOp = FieldOp("none")

\* the stored Nodes a filter matches: a null filter matches them all
MatchingNodes(filter) ==
    IF filter = Null THEN DOMAIN nodeStore
    ELSE {k \in DOMAIN nodeStore : k = Get(filter, "_id")}

\* Node.mongore.load(query, onSuccess, onNotFound, onError) by application
\* code, once: an instance is constructed and a findOne issued for it
LoadNode(query) ==
    /\ nodeCount = 0
    /\ nodeLoads' = <<[query |-> NormalizeQuery(query), given |-> TRUE]>>
    /\ nodeCount' = 1
    /\ nodeOp' = "load"
    /\ UNCHANGED nodeStore
    /\ UNCHANGED <<wrapperVars, fkVars, regVars, ddlVars, fieldVars, aliasVars>>

\* findOne answered with the document of key k: _setFromDBDocument runs
\* initAfterLoad of next when the document has that key, which has Node load
\* the stored value: another instance, another findOne, no continuation
NodeLoaded(i, k) ==
    LET r == nodeLoads[i]
        data == nodeStore[k]
        requests == IF "next" \in DOMAIN data
                    THEN <<[query |-> NormalizeQuery(data["next"]), given |-> FALSE]>>
                    ELSE <<>>
    IN /\ k \in MatchingNodes(r.query)
       /\ nodeLoads' = Without(nodeLoads, i) \o requests
       /\ nodeCount' = IF nodeCount + Len(requests) > MaxLoads + 1 THEN MaxLoads
                       ELSE nodeCount + Len(requests)
       /\ nodeOp' = "loadDone"
       /\ UNCHANGED nodeStore
       /\ UNCHANGED <<wrapperVars, fkVars, regVars, ddlVars, fieldVars, aliasVars>>

\* findOne answered with an error, or found no document: onNotFound or
\* onError runs, or the error is thrown when no continuation was given
NodeFailed(i, fail) ==
    LET r == nodeLoads[i]
    IN /\ fail \/ MatchingNodes(r.query) = {}
       /\ nodeLoads' = Without(nodeLoads, i)
       /\ nodeOp' = IF r.given THEN "failed" ELSE "throw"
       /\ UNCHANGED <<nodeStore, nodeCount>>
       /\ UNCHANGED <<wrapperVars, fkVars, regVars, ddlVars, fieldVars, aliasVars>>

NextChain ==
    \/ \E query \in UserKeys : LoadNode(query)
    \/ \E i \in 1..Len(nodeLoads) : \E k \in UserKeys : NodeLoaded(i, k)
    \/ \E i \in 1..Len(nodeLoads) : \E fail \in BOOLEAN : NodeFailed(i, fail)

\* the driver answers every request it was handed
SpecChain ==
    /\ InitChain
    /\ [][NextChain]_vars
    /\ WF_vars(\E i \in 1..Len(nodeLoads) :
                   \/ \E k \in UserKeys : NodeLoaded(i, k)
                   \/ \E fail \in BOOLEAN : NodeFailed(i, fail))

----------------------------------------------------------------------------
(* Properties *)

\* the position of event e in the last step's events, 0 when it did not happen
Pos(e) ==
    IF \E i \in 1..Len(lastOp.events) : lastOp.events[i] = e
    THEN CHOOSE i \in 1..Len(lastOp.events) : lastOp.events[i] = e
    ELSE 0

Happened(e) == Pos(e) # 0

Before(e1, e2) == Happened(e1) /\ Happened(e2) /\ Pos(e1) < Pos(e2)

\* C1: a registered field is in the dirty set if and only if its in-memory
\* value differs, by the descriptor's isEqual, from the value last persisted
\* for it (in every reachable state).
C1_DirtyIffDiffers ==
    \A f \in FieldNames :
        (f \in dirty) <=> ~IsEqual(f, Get(fields, f), Get(lastPersisted, f))

\* C2: right after the base constructor has run (new, or the instance that
\* load() constructs) every registered field holds its descriptor default
\* and the dirty set is empty.
C2_DefaultsNotDirty ==
    lastOp.op \in {"new", "load"} =>
        /\ \A f \in FieldNames : Get(fields, f) = Default(f)
        /\ dirty = {}
        /\ ~isDirty

\* C3: an assignment that isEqual reports as different stores the raw value
\* and adds exactly that field to the dirty set; one that isEqual reports as
\* equal changes neither; an assignment validates nothing and never fails.
C3_AssignEffect ==
    [][lastOp'.op = "assign" =>
          LET f == lastOp'.f
              v == lastOp'.v
          IN /\ ~lastOp'.threw
             /\ IF IsEqual(f, v, Get(fields, f))
                THEN fields' = fields /\ dirty' = dirty
                ELSE /\ fields' = Put(fields, f, v)
                     /\ dirty' = dirty \cup {f}]_vars

\* C3 witness: on a saved, clean instance an out-of-range score was assigned:
\* it is stored as given and score alone is dirty
C3_Witness ==
    /\ lastOp.op = "assign" /\ lastOp.f = "score"
    /\ isSavedToDB
    /\ fields["score"] = Num(3)
    /\ dirty = {"score"}

\* C4: the update document save() sends for an instance already in storage
\* holds, besides the three bookkeeping fields, exactly the dirty fields when
\* force is not set and all registered fields when force is set.
C4_UpdateDocument ==
    [][lastOp'.op = "save" /\ lastOp'.wrote = "update" =>
          DOMAIN pending'[Len(pending')].doc =
              MetaKeys \cup (IF lastOp'.force THEN FieldNames ELSE dirty)]_vars

\* C4 witness: a forced save of an instance in storage with nothing dirty
\* issued an update
C4_Witness ==
    /\ lastOp.op = "save" /\ lastOp.wrote = "update" /\ lastOp.force
    /\ dirty = {}

\* C5 (as stated): the second of two save() calls on a new instance with no
\* field mutation in between issues no storage write unless it is forced.
C5_SecondSaveNoWrite ==
    lastOp.op = "save" /\ lastOp.prev \in {"inflight", "acked", "failed"}
                       /\ ~lastOp.force
        => lastOp.wrote = "none"

\* C5 (amended): save() on a new instance issues an insert; a second save()
\* made after that insert was reported successful, with no field mutation in
\* between, issues no storage write, unless it is forced, and then it issues
\* one update.
C5_SaveTwice ==
    /\ lastOp.op = "save" /\ ~isInDB /\ ~lastOp.threw => lastOp.wrote = "insert"
    /\ lastOp.op = "save" /\ lastOp.prev = "acked" =>
          lastOp.wrote = (IF lastOp.force THEN "update" ELSE "none")

\* C5 witness: the second, unforced save() after the acknowledged insert was
\* skipped
C5_Witness ==
    /\ lastOp.op = "save" /\ lastOp.prev = "acked" /\ ~lastOp.force
    /\ lastOp.wrote = "none"

\* C6: a save() on an instance in storage, not dirty and not forced, issues
\* no storage request and still tells the caller of success: the success
\* continuation is invoked.
C6_NoOpSaveSucceeds ==
    lastOp.op = "save" /\ isInDB /\ ~isDirty /\ ~lastOp.force /\ lastOp.given
        => lastOp.wrote = "none" /\ Happened("onSuccess(object)")

\* C6 witness: such a save() was made with a success continuation
C6_Witness ==
    /\ lastOp.op = "save" /\ isInDB /\ ~isDirty /\ ~lastOp.force /\ lastOp.given
    /\ lastOp.wrote = "none"

\* _dbObjectVersion / _dbCreationTime of the stored document with key k
StoredVersion(store, k) ==
    IF k \in DOMAIN store THEN Get(store[k], "_dbObjectVersion") ELSE Num(0)

StoredCreation(store, k) ==
    IF k \in DOMAIN store THEN Get(store[k], "_dbCreationTime") ELSE Undef

\* C7: each successful write raises the version persisted for the instance's
\* document by exactly 1, and after each successful save the instance's
\* objectVersion equals the persisted version.
C7_VersionMonotonic ==
    [][lastOp'.op = "saveDone" /\ id \in DOMAIN db' =>
          /\ StoredVersion(db', id) = Num(StoredVersion(db, id).n + 1)
          /\ objectVersion' = StoredVersion(db', id)]_vars

\* C7 witness: a second write of the same document was reported successful
C7_Witness ==
    /\ lastOp.op = "saveDone" /\ lastOp.wrote = "update"
    /\ id \in DOMAIN db

\* C8: the creation time is set by the first successful write and no later
\* save changes it: after every save the persisted and the local creation
\* time equal the value set at first write.
C8_CreationTimeFixed ==
    [][lastOp'.op = "saveDone" /\ id \in DOMAIN db' =>
          /\ id \in DOMAIN db => StoredCreation(db', id) = StoredCreation(db, id)
          /\ creationTime' = StoredCreation(db', id)]_vars

\* C8 witness: an update of the stored document was reported successful at a
\* later time than its creation
C8_Witness ==
    /\ lastOp.op = "saveDone" /\ lastOp.wrote = "update"
    /\ id \in DOMAIN db
    /\ Get(db[id], "_dbLastUpdateTime") = Date(2)

\* the fields save() is about to clean: all of them for an insert, the dirty
\* ones for an update
WouldWrite(force) ==
    IF isInDB THEN (IF force \/ isDirty THEN dirty ELSE {}) ELSE FieldNames

\* C9: when clean() of a field that would be written fails, save() throws,
\* no request reaches storage, and field values, dirty set and the
\* loaded / saved flags are unchanged.
C9_CleanFailureAborts ==
    [][/\ lastOp'.op = "save"
       /\ \/ lastOp'.threw
          \/ \E f \in WouldWrite(lastOp'.force) : ~Clean(f, fields, fields[f]).ok
       =>
       /\ lastOp'.threw
       /\ lastOp'.wrote = "none"
       /\ pending' = pending
       /\ db' = db
       /\ fields' = fields
       /\ dirty' = dirty
       /\ isLoadedFromDB' = isLoadedFromDB
       /\ isSavedToDB' = isSavedToDB]_vars

\* C9 witness: an update of a saved instance whose dirty score is out of
\* range threw
C9_Witness ==
    /\ lastOp.op = "save" /\ lastOp.threw
    /\ isSavedToDB
    /\ fields["score"] = Num(3)

HappenedNext(e) == \E i \in 1..Len(lastOp'.events) : lastOp'.events[i] = e

BeforeNext(e1, e2) ==
    \E i, j \in 1..Len(lastOp'.events) :
        i < j /\ lastOp'.events[i] = e1 /\ lastOp'.events[j] = e2

\* the request whose callback the step ran: the one that left pending
Answered(r) == \E i \in 1..Len(pending) : pending[i] = r /\ pending' = Without(pending, i)

\* C11: reload() on an instance that was never loaded from nor saved to
\* storage throws at once, issues no storage request and leaves the
\* instance as it was.
C11_ReloadPrecondition ==
    [][lastOp'.op = "reload" /\ ~isInDB =>
          /\ lastOp'.threw
          /\ lastOp'.wrote = "none"
          /\ pending' = pending
          /\ db' = db
          /\ fields' = fields
          /\ dirty' = dirty
          /\ isLoadedFromDB' = isLoadedFromDB
          /\ isSavedToDB' = isSavedToDB
          /\ lastLoadTime' = lastLoadTime
          /\ onFirstLoad' = onFirstLoad]_vars

\* C11 witness: reload() threw on an instance with an assigned key that is
\* not in storage
C11_Witness ==
    /\ lastOp.op = "reload" /\ lastOp.threw
    /\ ~isInDB
    /\ id = Num(1)
    /\ pending = <<>>

\* C12: a successful reload() sets every field of the fetched document to
\* what the field's initAfterLoad returns for it, leaves the dirty set
\* empty, and runs the after-load hook (on every reload) before the caller's
\* success callback.
C12_ReloadEffect ==
    [][lastOp'.op = "loadDone" /\ lastOp'.api = "reload" =>
          /\ \E r \in {pending[i] : i \in 1..Len(pending)} :
                /\ Answered(r) /\ r.api = "reload"
                /\ r.filter["_id"] \in DOMAIN db
                /\ LET data == db[r.filter["_id"]]
                   IN \A k \in DOMAIN data :
                         fields'[k] = IF k \in FieldNames
                                      THEN InitAfterLoad(k, data[k]) ELSE data[k]
          /\ dirty' = {}
          /\ HappenedNext("afterLoadedFromDB")
          /\ lastOp'.given => BeforeNext("afterLoadedFromDB", "onSuccess(wrapper)")]_vars

\* C12 witness: a reload of an instance that was loaded before completed
\* and called the caller back
C12_Witness ==
    /\ lastOp.op = "loadDone" /\ lastOp.api = "reload"
    /\ lastOp.prev = "loaded" /\ lastOp.given
    /\ Happened("onSuccess(wrapper)")

\* C13: a one-shot callback registered before the instance is hydrated is
\* invoked at the first successful hydration (load or reload) of the
\* instance, and at no later one.
C13_FirstLoadOnce ==
    [][lastOp'.op = "loadDone" =>
          (HappenedNext("onFirstLoad(object)") <=> (onFirstLoad /\ ~isLoadedFromDB))]_vars

\* C13 witness: the first hydration of an instance with a callback registered
C13_Witness ==
    /\ lastOp.op = "loadDone" /\ lastOp.prev = "none"
    /\ onFirstLoad

\* C14: when the document load() asks for is not found, the not-found
\* continuation runs if one was given, else the error continuation, else
\* the error is thrown; the success continuation does not run and the
\* instance is not marked loaded.
C14_LoadNotFound ==
    [][lastOp'.op = "failed" /\ lastOp'.api = "load" /\ lastOp'.outcome = "notfound" =>
          /\ \E r \in {pending[i] : i \in 1..Len(pending)} :
                /\ Answered(r) /\ r.api = "load"
                /\ lastOp'.events = IF r.onNotFound THEN <<"onNotFound">>
                                    ELSE IF r.onError THEN <<"onError">>
                                    ELSE <<"throw">>
                /\ lastOp'.threw = (~r.onNotFound /\ ~r.onError)
          /\ ~HappenedNext("onSuccess(object)")
          /\ ~HappenedNext("onSuccess(wrapper)")
          /\ isLoadedFromDB' = isLoadedFromDB
          /\ lastLoadTime' = lastLoadTime
          /\ fields' = fields]_vars

\* C14 witness: a load() of a query that matches none of the stored
\* documents ran the not-found continuation
C14_Witness ==
    /\ lastOp.op = "failed" /\ lastOp.api = "load" /\ lastOp.outcome = "notfound"
    /\ lastOp.events = <<"onNotFound">>
    /\ ~isLoadedFromDB
    /\ DOMAIN db # {}

\* C15: load() returns at once a new instance holding the defaults, not
\* marked loaded; its findOne filter is {_id: query} for a scalar query and
\* the query itself for a query object; on success that instance is
\* populated from the fetched document, marked loaded and its dirty set
\* emptied before the success callback is invoked with it.
C15_LoadFlow ==
    [][/\ lastOp'.op = "load" =>
             /\ \A f \in FieldNames : Get(fields', f) = Default(f)
             /\ ~isLoadedFromDB' /\ ~isSavedToDB' /\ lastLoadTime' = Null
             /\ Len(pending') = 1 /\ pending'[1].kind = "find"
             /\ pending'[1].filter = IF lastOp'.v \in IdValues
                                     THEN [k \in {"_id"} |-> lastOp'.v]
                                     ELSE lastOp'.v
       /\ lastOp'.op = "loadDone" /\ lastOp'.api = "load" =>
             /\ \E r \in {pending[i] : i \in 1..Len(pending)} :
                   /\ Answered(r) /\ r.api = "load"
                   /\ r.filter["_id"] \in DOMAIN db
                   /\ \A k \in DOMAIN db[r.filter["_id"]] :
                         Get(fields', k) = db[r.filter["_id"]][k]
             /\ isLoadedFromDB' /\ dirty' = {}
             /\ lastOp'.given =>
                   /\ BeforeNext("setFields", "onSuccess(object)")
                   /\ BeforeNext("isLoadedFromDB", "onSuccess(object)")
                   /\ BeforeNext("clearDirty", "onSuccess(object)")]_vars

\* C15 witness: a load() completed and handed the populated instance to the
\* caller
C15_Witness ==
    /\ lastOp.op = "loadDone" /\ lastOp.api = "load" /\ lastOp.given
    /\ isLoadedFromDB /\ ~isSavedToDB
    /\ id = Num(1)

\* C16: when a Board document is loaded, the success callback of the load
\* runs while the referenced User is not hydrated: the User is fetched by a
\* second lookup that is still in flight when the callback has run, and
\* that completes in a later step, which does not involve the Board.
C16_ForeignKeyResolvedLater ==
    [][/\ fkOp'.op = "loadDone" =>
             LET h == fkOp'.target
             IN /\ board'.creator = Ref(h)
                /\ ~instances'[h].isLoadedFromDB
                /\ \E j \in 1..Len(lookups') :
                      lookups'[j].api = "fk" /\ lookups'[j].target = h
                /\ fkOp'.given =>
                      fkOp'.events[Len(fkOp'.events)] = "onSuccess(object)"
       /\ fkOp'.op = "fkDone" =>
             LET h == fkOp'.target
             IN /\ h \in 1..Len(instances)
                /\ ~instances[h].isLoadedFromDB /\ instances'[h].isLoadedFromDB
                /\ \E j \in 1..Len(lookups) :
                      /\ lookups[j].api = "fk" /\ lookups[j].target = h
                      /\ lookups' = Without(lookups, j)
                /\ board' = board]_vars

\* C16 witness: the User referenced by a loaded Board was hydrated by its
\* own lookup
C16_Witness ==
    /\ fkOp.op = "fkDone"
    /\ board.isLoadedFromDB /\ board.creator = Ref(fkOp.target)
    /\ instances[fkOp.target].isLoadedFromDB
    /\ instances[fkOp.target].id = Num(1)

\* both values are model instances and their primary keys are equal
SameKey(a, b) == a.t = "inst" /\ b.t = "inst" /\ IdOf(a) = IdOf(b)

\* C17: ForeignKeyField.isEqual(a, b) is true exactly when a and b are both
\* model instances with equal primary keys; so assigning a reference whose
\* key differs from the current one, or a reference over an absent value,
\* stores it and marks the field dirty.
C17_ForeignKeyIsEqual ==
    [][/\ fkOp'.op = "isEqual" => (fkOp'.result <=> SameKey(fkOp'.a, fkOp'.b))
       /\ fkOp'.op = "assign" /\ fkOp'.a.t = "inst" /\ ~SameKey(fkOp'.a, board.creator) =>
             board'.creator = fkOp'.a /\ board'.dirty]_vars

\* C17 witness: isEqual was called on two distinct User instances that hold
\* the same primary key
C17_Witness ==
    /\ fkOp.op = "isEqual"
    /\ fkOp.a.t = "inst" /\ fkOp.b.t = "inst" /\ fkOp.a # fkOp.b
    /\ IdOf(fkOp.a) = Num(1) /\ IdOf(fkOp.b) = Num(1)

\* C18: clean of a foreign key to User throws unless the value is a User
\* instance with an assigned primary key, and then returns that key (null
\* aside, for a field declared canBeNull).
C18_ForeignKeyClean ==
    fkOp.op = "clean" /\ ~(fkOp.a = Null /\ fkOp.canBeNull) =>
        IF InstanceOf(fkOp.a, "User") /\ ~Nullish(IdOf(fkOp.a))
        THEN ~fkOp.threw /\ fkOp.val = IdOf(fkOp.a)
        ELSE fkOp.threw

\* C18 witness: clean was called on a User that was constructed and given
\* no key
C18_Witness ==
    /\ fkOp.op = "clean"
    /\ InstanceOf(fkOp.a, "User")
    /\ IdOf(fkOp.a) = Null

\* C19: buildModel on a class it was already called on throws; buildModel
\* declaring a field whose name the class already has a property for throws,
\* and no instance exists at that point; new on a class buildModel was never
\* called on throws and constructs nothing.
C19_RegistrationPreconditions ==
    [][/\ regOp'.op = "buildModel" /\ classMongore =>
             regOp'.threw /\ prototype' = prototype
       /\ regOp'.op = "buildModel" /\ ~classMongore /\ regOp'.existing # {} =>
             regOp'.threw /\ created = 0
       /\ regOp'.op = "new" /\ ~classMongore =>
             regOp'.threw /\ created' = created]_vars

\* C19 witness: buildModel was called with a field named as a property the
\* class defines
C19_Witness ==
    /\ regOp.op = "buildModel"
    /\ regOp.existing # {}
    /\ created = 0

\* the _id of the document a write request addresses
WriteKey(r) == IF r.kind = "insert" THEN Get(r.doc, "_id") ELSE Get(r.filter, "_id")

\* C20: after a successful delete() the instance is no longer reported as
\* present in storage (isInDB); a save() that follows writes it again, so
\* that once this save has succeeded a document with the instance's primary
\* key is in the store.
C20_DeleteDetaches ==
    [][/\ lastOp'.op = "deleteDone" => ~isInDB'
       /\ lastOp'.op = "save" /\ lastOp'.prev = "deleted" /\ ~lastOp'.threw =>
             lastOp'.wrote # "none"
       /\ lastOp'.op = "saveDone" /\ lastOp'.prev = "deleted" =>
             \E r \in {pending[i] : i \in 1..Len(pending)} :
                Answered(r) /\ r.api = "save" /\ WriteKey(r) \in DOMAIN db']_vars

\* C20 witness: a save() made after a completed delete() was reported
\* successful
C20_Witness ==
    /\ lastOp.op = "saveDone" /\ lastOp.prev = "deleted"
    /\ isSavedToDB

\* C21: delete() of an instance issues exactly one request, a deleteOne
\* filtered by the instance's primary key, and changes nothing else; the
\* after-delete hook and then the caller's success callback run only in the
\* step in which the store answers that request without error; when the
\* store answers it with an error neither runs and the error goes to the
\* error continuation.
C21_InstanceDelete ==
    [][/\ lastOp'.op = "delete" =>
             /\ Len(pending') = Len(pending) + 1
             /\ SubSeq(pending', 1, Len(pending)) = pending
             /\ pending'[Len(pending')].kind = "delete"
             /\ pending'[Len(pending')].filter = IdFilter(id)
             /\ lastOp'.events = <<"deleteOne">>
             /\ UNCHANGED <<fields, dirty, db>>
       /\ (lastOp'.api = "delete" /\ \E ev \in {"afterDeletedFromDB", "onSuccess(wrapper)"} :
                                           HappenedNext(ev)) =>
             /\ \E i \in 1..Len(pending) :
                   /\ pending[i].kind = "delete"
                   /\ Answer(pending[i], FALSE).state = "ok"
                   /\ pending' = Without(pending, i)
                   /\ pending[i].onSuccess => HappenedNext("onSuccess(wrapper)")
             /\ HappenedNext("afterDeletedFromDB")
             /\ HappenedNext("onSuccess(wrapper)") =>
                   BeforeNext("afterDeletedFromDB", "onSuccess(wrapper)")
       /\ lastOp'.op = "failed" /\ lastOp'.api = "delete" =>
             /\ ~HappenedNext("afterDeletedFromDB")
             /\ ~HappenedNext("onSuccess(wrapper)")
             /\ lastOp'.given => lastOp'.events = <<"onError">>
             /\ UNCHANGED db]_vars

\* C21 witness: the store answered a delete() and removed the document; the
\* hook and the caller's callback ran
C21_Witness ==
    /\ lastOp.op = "deleteDone" /\ lastOp.given
    /\ isSavedToDB
    /\ id \notin DOMAIN db

\* C22: the class-level delete() and deleteMany() issue exactly one delete
\* request, whose filter is the query itself when it is an object and the
\* primary-key equality filter {_id: query} otherwise; neither the call nor
\* its completion constructs or hydrates an instance, runs an instance hook
\* (afterDeletedFromDB in particular) or changes the instance in memory.
C22_ClassDelete ==
    [][/\ lastOp'.op \in {"classDelete", "classDeleteMany"} =>
             /\ pending' = Append(pending, pending'[Len(pending')])
             /\ pending'[Len(pending')].kind =
                    (IF lastOp'.op = "classDelete" THEN "delete" ELSE "deleteMany")
             /\ pending'[Len(pending')].filter =
                    (IF "t" \in DOMAIN lastOp'.v THEN IdFilter(lastOp'.v) ELSE lastOp'.v)
             /\ lastOp'.events \in {<<"deleteOne">>, <<"deleteMany">>}
             /\ UNCHANGED <<instanceVars, db>>
       /\ lastOp'.api \in {"classDelete", "classDeleteMany"} =>
             /\ \A ev \in {"new", "setFields", "isLoadedFromDB", "afterDeletedFromDB",
                            "afterLoadedFromDB", "afterSavedToDB", "beforeSaveToDB"} :
                   ~HappenedNext(ev)
             /\ UNCHANGED instanceVars]_vars

\* C22 witness: a class-level deleteMany() removed the document of the saved
\* instance that application code holds
C22_Witness ==
    /\ lastOp.op = "classDone" /\ lastOp.api = "classDeleteMany"
    /\ isSavedToDB /\ id = Num(1)
    /\ db = EmptyObj

\* s is an initial part of t
IsPrefix(s, t) == Len(s) <= Len(t) /\ s = SubSeq(t, 1, Len(s))

\* the fields declared as index, unique or not as asked
Declared(unique) ==
    {f \in FieldNames : indexDecl[f].index /\ indexDecl[f].unique = unique}

\* what a createCollection whose every stage succeeds issues and runs: the
\* creation, the batch of non-unique indexes when there is one, the batch of
\* unique indexes when there is one, each answered before the next is
\* issued, and then the caller's callback
FullTrace(given) ==
    <<"createCollection", "ok">>
        \o (IF Declared(FALSE) # {} THEN <<"createIndex", "ok">> ELSE <<>>)
        \o (IF Declared(TRUE) # {} THEN <<"createIndex(unique)", "ok">> ELSE <<>>)
        \o (IF given THEN <<"onSuccess">> ELSE <<>>)

StorageRequests == {"createCollection", "createIndex", "createIndex(unique)"}

\* the requests of call c that are in flight
InFlight(c) == {i \in 1..Len(ddl) : ddl[i].call = c}

\* C23: every createCollection call issues its requests in the order
\* creation, non-unique index batch, unique index batch, each one only once
\* the one before was answered without error; an empty batch is passed over
\* without a request; the caller's success callback runs only after all
\* stages succeeded; after an error the error continuation runs and nothing
\* further is issued.
C23_CreateCollectionStages ==
    \A c \in 1..Len(ddlTrace) :
        ddlTrace[c].api = "createCollection" =>
            LET ev == ddlTrace[c].events
                full == FullTrace(ddlTrace[c].given)
                last == ev[Len(ev)]
            IN \/ /\ ev = <<"throw">>          \* nothing was issued at all
                  /\ InFlight(c) = {}
               \/ /\ ev = full
                  /\ InFlight(c) = {}
               \/ /\ IsPrefix(ev, full) /\ last \in StorageRequests
                  /\ \E i \in 1..Len(ddl) :
                        /\ InFlight(c) = {i}
                        /\ ddl[i].kind = (IF last = "createCollection"
                                          THEN "createCollection" ELSE "createIndex")
                        /\ ddl[i].kind = "createIndex" =>
                              /\ ddl[i].unique = (last = "createIndex(unique)")
                              /\ {ddl[i].indexes[j] : j \in 1..Len(ddl[i].indexes)}
                                    = Declared(ddl[i].unique)
               \/ /\ Len(ev) >= 3
                  /\ IsPrefix(SubSeq(ev, 1, Len(ev) - 2), full)
                  /\ ev[Len(ev) - 2] \in StorageRequests
                  /\ ev[Len(ev) - 1] = "err"
                  /\ last = (IF ddlTrace[c].given THEN "onError" ELSE "throw")
                  /\ InFlight(c) = {}

\* C23 witness: a createCollection of a model with a non-unique and a
\* unique index went through its three requests and told the caller
C23_Witness ==
    \E c \in 1..Len(ddlTrace) :
        ddlTrace[c].events = <<"createCollection", "ok", "createIndex", "ok",
                               "createIndex(unique)", "ok", "onSuccess">>

\* the continuations a caller may pass, as they appear among the events
ContinuationEvents ==
    {"onSuccess(object)", "onSuccess(wrapper)", "onSuccess(res)", "onSuccess",
     "onError", "onNotFound"}

\* how many times a continuation was invoked among events
Signals(events) ==
    Cardinality({i \in 1..Len(events) : events[i] \in ContinuationEvents})

\* the steps in which MongoConnection runs the callback of a request
Completions == {"saveDone", "loadDone", "deleteDone", "classDone", "failed"}

\* C24: when the caller passed its continuations, the step that issues a
\* storage request invokes none of them, and the completion of the request
\* invokes exactly one: for save, load, reload, delete and the class-level
\* delete and deleteMany the step that answers the request, which takes it
\* out of flight; for createCollection and dropCollection the call as a
\* whole, once none of its requests is in flight.
C24_ExactlyOneContinuation ==
    [][/\ lastOp'.op \in {"save", "load", "reload", "delete", "classDelete",
                         "classDeleteMany"} /\ Len(pending') > Len(pending) =>
             Signals(lastOp'.events) = 0 /\ Len(pending') = Len(pending) + 1
       /\ lastOp'.op \in Completions /\ Len(pending') < Len(pending) =>
             \E i \in 1..Len(pending) :
                /\ pending' = Without(pending, i)
                /\ pending[i].onSuccess /\ pending[i].onError =>
                      Signals(lastOp'.events) = 1
       /\ \A c \in 1..Len(ddlTrace') :
             ddlTrace'[c].given /\ ddlTrace'[c].events # <<"throw">> =>
                Signals(ddlTrace'[c].events) =
                    (IF \E i \in 1..Len(ddl') : ddl'[i].call = c THEN 0 ELSE 1)]_vars

\* C24 witness: a load() that found nothing told its not-found continuation,
\* and a createCollection went through all its stages and told the caller
C24_Witness ==
    /\ lastOp.op = "failed" /\ lastOp.api = "load" /\ lastOp.outcome = "notfound"
    /\ lastOp.events = <<"onNotFound">>
    /\ \E c \in 1..Len(ddlTrace) :
          /\ ddlTrace[c].given /\ Len(ddlTrace[c].events) = 7
          /\ ddlTrace[c].events[7] = "onSuccess"

\* C25: a request answered with an error whose caller passed no error
\* continuation ends in a throw; a findOne that found nothing and whose
\* caller passed no not-found continuation takes the error path: the error
\* continuation when there is one, a throw otherwise.
C25_FaultWhenNoErrorContinuation ==
    [][/\ lastOp'.op = "failed" /\ Len(pending') < Len(pending) =>
             \E i \in 1..Len(pending) :
                /\ pending' = Without(pending, i)
                /\ lastOp'.outcome = "err" /\ ~pending[i].onError =>
                      lastOp'.threw /\ lastOp'.events = <<"throw">>
                /\ lastOp'.outcome = "notfound" /\ ~pending[i].onNotFound =>
                      IF pending[i].onError
                      THEN ~lastOp'.threw /\ lastOp'.events = <<"onError">>
                      ELSE lastOp'.threw /\ lastOp'.events = <<"throw">>
       /\ \A c \in 1..Len(ddlTrace') :
             LET ev == ddlTrace'[c].events
             IN ~ddlTrace'[c].given /\ (\E j \in 1..Len(ev) : ev[j] = "err") =>
                   ev[Len(ev)] = "throw" /\ ev[Len(ev) - 1] = "err"]_vars

\* C25 witness: a load() without continuations that found nothing threw
C25_Witness ==
    /\ lastOp.op = "failed" /\ lastOp.api = "load" /\ lastOp.outcome = "notfound"
    /\ ~lastOp.given /\ lastOp.threw

\* C26: a descriptor of any variant configured with canBeNull (its value is
\* not aliased and, for a date, autoNow is off) cleans null to null and does
\* not fail.
C26_NullAccepted ==
    (/\ fieldOp.op = "clean"
     /\ fieldOp.d.canBeNull /\ fieldOp.d.source = "" /\ ~fieldOp.d.autoNow
     /\ fieldOp.value = Null)
    => fieldOp.ok /\ fieldOp.val = Null

\* C26 witness: a list descriptor with canBeNull cleaned null
C26_Witness ==
    /\ fieldOp.op = "clean"
    /\ fieldOp.d.canBeNull /\ fieldOp.d.source = ""
    /\ fieldOp.d.type = "list"
    /\ fieldOp.value = Null

\* C27: round trip through the load path: for a descriptor of any variant
\* (its value not aliased) and a value v its clean accepts, the clean of what
\* initAfterLoad returns for v succeeds and equals the clean of v.
C27_RoundTrip ==
    (fieldOp.op = "roundTrip" /\ fieldOp.d.source = "")
    => fieldOp.again = [ok |-> TRUE, val |-> fieldOp.val]

\* C27 witness: a foreign key descriptor cleaned what its initAfterLoad
\* returned for a User whose key is set
C27_Witness ==
    /\ fieldOp.op = "roundTrip"
    /\ fieldOp.d.type = "foreignKey" /\ fieldOp.d.source = ""
    /\ fieldOp.value = Ref(1)
    /\ fieldOp.val = Num(1)

\* a clean of a descriptor of the given variant on the value itself (no
\* alias), the null a canBeNull descriptor hands back apart
CleanedBy(type) ==
    /\ fieldOp.op = "clean"
    /\ fieldOp.d.type = type /\ fieldOp.d.source = ""
    /\ ~(fieldOp.value = Null /\ fieldOp.d.canBeNull)

\* C28: NumericField.clean parses the value with the configured parser; it
\* fails when the parsed result is not a finite number, is smaller than min
\* or is larger than max, and otherwise returns the parsed number; "3" with
\* parseInt gives 3.
C28_NumericClean ==
    LET d == fieldOp.d
        p == Parser(d, fieldOp.value)
        fails == \/ p.t # "num"
                 \/ d.hasMin /\ Less(p, Num(d.min))
                 \/ d.hasMax /\ Less(Num(d.max), p)
    IN CleanedBy("numeric") =>
          /\ fieldOp.ok = ~fails
          /\ fieldOp.ok => fieldOp.val = p
          /\ (d.parser = "parseInt" /\ fieldOp.value = Str(3)) => fieldOp.val = Num(3)

\* C28 witness: a numeric descriptor with no max cleaned Infinity
C28_Witness ==
    /\ CleanedBy("numeric")
    /\ ~fieldOp.d.hasMax
    /\ fieldOp.d.parser = "parseFloat"
    /\ fieldOp.value = Infinity

\* C29: StringField.clean converts the value to a string; it fails exactly
\* when the length of that string is greater than a configured maxLength or
\* smaller than a configured minLength, and otherwise returns the string.
C29_StringClean ==
    LET d == fieldOp.d
        s == StringOf(fieldOp.value)
        fails == \/ d.hasMaxLength /\ Length(s) > d.maxLength
                 \/ d.hasMinLength /\ Length(s) < d.minLength
    IN CleanedBy("string") =>
          /\ fieldOp.ok = ~fails
          /\ fieldOp.ok => fieldOp.val = s

\* C29 witness: a string descriptor with a minLength cleaned a longer string
C29_Witness ==
    /\ CleanedBy("string")
    /\ fieldOp.d.hasMinLength
    /\ fieldOp.value = Abcd
    /\ Length(fieldOp.value) > fieldOp.d.minLength

\* C30: ChoiceField.clean fails for every value that is no member of the
\* configured choices, and for every member it succeeds and returns the
\* string form of the value.
C30_ChoiceClean ==
    CleanedBy("choice") =>
       /\ fieldOp.ok = (fieldOp.value \in fieldOp.d.choices)
       /\ fieldOp.ok => fieldOp.val = StringOf(fieldOp.value)

\* C30 witness: a choice descriptor configured with numbers cleaned one of
\* them
C30_Witness ==
    /\ CleanedBy("choice")
    /\ fieldOp.d.choices = {Num(1), Num(3)}
    /\ fieldOp.value = Num(1)

\* C31: ListField.clean fails unless the value is a list and fails when the
\* list has more than maxItems items; otherwise every item is cleaned by the
\* descriptor of the items when one is configured, with removeDuplicates the
\* result holds the first occurrence of each distinct cleaned item in order,
\* and without removeDuplicates it holds every cleaned item.
C31_ListClean ==
    LET d == fieldOp.d
        v == fieldOp.value
        n == Len(v.items)
        each == [k \in 1..n |->
                    IF d.itemsType = "numeric"
                    THEN NumericClean(FieldData("numeric"), fieldOwner, v.items[k])
                    ELSE [ok |-> TRUE, val |-> v.items[k]]]
        first == {i \in 1..n : \A j \in 1..(i - 1) : each[j].val # each[i].val}
        nth(k) == CHOOSE i \in first : Cardinality({j \in first : j < i}) = k - 1
        expected == IF d.removeDuplicates
                    THEN [k \in 1..Cardinality(first) |-> each[nth(k)].val]
                    ELSE [k \in 1..n |-> each[k].val]
    IN (fieldOp.op = "clean" /\ d.type = "list" /\ d.source = "") =>
          IF KindOf(v) # "list" THEN ~fieldOp.ok
          ELSE IF d.hasMaxItems /\ n > d.maxItems THEN ~fieldOp.ok
          ELSE IF \E k \in 1..n : ~each[k].ok THEN ~fieldOp.ok
          ELSE fieldOp.ok /\ fieldOp.val = List(expected)

\* C31 witness: a list descriptor with removeDuplicates and a descriptor for
\* its items cleaned [3, "3", 1, 3] to [3, 1]
C31_Witness ==
    /\ fieldOp.op = "clean"
    /\ fieldOp.d.type = "list" /\ fieldOp.d.source = ""
    /\ fieldOp.d.removeDuplicates /\ fieldOp.d.itemsType = "numeric"
    /\ fieldOp.value = List(<<Num(3), Str(3), Num(1), Num(3)>>)
    /\ fieldOp.ok /\ fieldOp.val = List(<<Num(3), Num(1)>>)

\* C32: DictionaryField.clean with a schema succeeds exactly when the value
\* is a plain object whose set of keys is the schema's, in any order, and
\* every value is accepted by the descriptor of its key; the result then maps
\* every key to its cleaned value.
C32_DictionaryClean ==
    LET d == fieldOp.d
        v == fieldOp.value
        keys == ObjectKeys(v)
        Keys(seq) == {seq[i] : i \in 1..Len(seq)}
        At(obj, key) == obj.vals[CHOOSE i \in 1..Len(obj.keys) : obj.keys[i] = key]
        Type(key) == d.schemaTypes[CHOOSE i \in 1..Len(d.schemaKeys) : d.schemaKeys[i] = key]
        Cleaned(key) ==
            IF Type(key) = "numeric"
            THEN NumericClean(FieldData("numeric"), fieldOwner, At(v, key))
            ELSE StringClean(FieldData("string"), fieldOwner, At(v, key))
        accepted == /\ KindOf(v) = "dict"
                    /\ Keys(keys) = Keys(d.schemaKeys)
                    /\ \A key \in Keys(keys) : Cleaned(key).ok
    IN (fieldOp.op = "clean" /\ d.type = "dictionary" /\ d.source = "" /\ d.hasSchema) =>
          /\ fieldOp.ok = accepted
          /\ fieldOp.ok =>
                /\ Keys(fieldOp.val.keys) = Keys(keys)
                /\ \A key \in Keys(keys) : At(fieldOp.val, key) = Cleaned(key).val

\* C32 witness: a dictionary descriptor with the schema {a, b} cleaned the
\* object {b: "ab", a: "1"}
C32_Witness ==
    /\ fieldOp.op = "clean"
    /\ fieldOp.d.type = "dictionary" /\ fieldOp.d.source = "" /\ fieldOp.d.hasSchema
    /\ fieldOp.value = Dict(<<"b", "a">>, <<Ab, Str(1)>>)

\* C33: a field declared with a source alias mirrors the aliased attribute in
\* storage: after every successful save, insert or update, the document the
\* save addressed holds, under the aliased field, the value the source
\* attribute had when the save was issued
C33_AliasMirrored ==
    [][\A i \in 1..Len(pending) :
          (aliased # "" /\ SaveDone(i)) =>
              LET r == pending[i]
                  key == IF r.kind = "insert" THEN Get(r.doc, "_id")
                         ELSE Get(r.filter, "_id")
              IN /\ key \in DOMAIN db'
                 /\ Get(db'[key], aliased) = r.name]_vars

\* an update was acknowledged for an instance whose score mirrors name, and
\* the collection holds a score other than the name the save was issued with
C33_Witness ==
    /\ aliased = "score"
    /\ lastOp.op = "saveDone"
    /\ lastOp.wrote = "update"
    /\ \E key \in DOMAIN db : Get(db[key], "score") # lastOp.v

\* C34: a call of save, load, reload or delete that reaches the client hands
\* it exactly one request (a save that is neither dirty nor forced, and a
\* call that throws first, hand it none), and a callback issues nothing: when
\* a request fails or is answered, the requests in flight are the former ones
\* without it, so a failed request is never issued again
C34_OneRequest ==
    [][LET op == lastOp'
           noop == op.op = "save" /\ isInDB /\ ~isDirty /\ ~op.force
       IN /\ op.op \in {"save", "reload", "delete"} =>
                IF noop \/ op.threw THEN pending' = pending
                ELSE /\ Len(pending') = Len(pending) + 1
                     /\ SubSeq(pending', 1, Len(pending)) = pending
                     /\ pending'[Len(pending')].api = op.op
          /\ op.op = "load" =>
                /\ Len(pending') = Len(pending) + 1
                /\ pending'[1].api = "load"
          /\ op.op \in {"failed", "saveDone", "loadDone", "deleteDone"} =>
                \E i \in 1..Len(pending) :
                    /\ pending' = Without(pending, i)
                    /\ pending[i].api = op.api]_vars

\* the error continuation of a save ran and nothing is in flight
C34_Witness ==
    /\ lastOp.op = "failed"
    /\ lastOp.api = "save"
    /\ lastOp.events = <<"onError">>
    /\ pending = <<>>

\* C35: _isLoadedFromDB and _isSavedToDB are independent: a successful save
\* sets the second and leaves the first, a successful load or reload sets the
\* first and leaves the second, and a failed or not-found request changes
\* neither
C35_FlagsIndependent ==
    [][LET op == lastOp'
       IN /\ op.op = "saveDone" =>
                isSavedToDB' /\ isLoadedFromDB' = isLoadedFromDB
          /\ op.op = "loadDone" =>
                isLoadedFromDB' /\ isSavedToDB' = isSavedToDB
          /\ op.op = "failed" =>
                isLoadedFromDB' = isLoadedFromDB /\ isSavedToDB' = isSavedToDB]_vars

\* an instance that was saved, not loaded, has just been reloaded
C35_Witness ==
    /\ lastOp.op = "loadDone"
    /\ lastOp.api = "reload"
    /\ lastOp.prev = "none"
    /\ isSavedToDB
    /\ isLoadedFromDB

\* C36: no modification is lost across a save in flight: a registered field
\* that is dirty when the callback of a write runs, and whose value is not
\* the one that write was built from, was assigned after the write was
\* issued, and is still dirty after the callback
C36_NoLostModification ==
    [][\A i \in 1..Len(pending) :
          SaveDone(i) =>
              \A f \in FieldNames :
                  (/\ f \in dirty
                   /\ \/ f \notin DOMAIN pending[i].raw
                      \/ fields[f] # pending[i].raw[f]) => f \in dirty']_vars

\* a write was acknowledged while score held a value assigned after the
\* write was issued
C36_Witness ==
    /\ lastOp.op = "saveDone"
    /\ "score" \in DOMAIN lastPersisted
    /\ fields["score"] # lastPersisted["score"]
    /\ pending = <<>>

\* C37: after a successful insert, the primary key mongore.id reports is the
\* _id of the document that was written, also when _id is declared with a
\* source alias (the _id field itself not having been assigned while the
\* insert was in flight)
C37_IdIsWrittenId ==
    [][\A i \in 1..Len(pending) :
          (/\ SaveDone(i)
           /\ pending[i].kind = "insert"
           /\ fields["_id"] = pending[i].raw["_id"]) =>
              id' = Get(pending[i].doc, "_id")]_vars

\* the insert of an instance whose _id mirrors name was acknowledged: the
\* collection holds the document under the name, and id is another value
C37_Witness ==
    /\ aliased = "_id"
    /\ lastOp.op = "saveDone"
    /\ lastOp.wrote = "insert"
    /\ lastOp.v \in DOMAIN db
    /\ id # lastOp.v

\* C38: a save whose request fails leaves the instance as it was: the field
\* values with the local version and timestamps, the dirty set and the two
\* flags are unchanged, the post-save hook does not run, the store is
\* unchanged, and save() would issue the same kind of request over the same
\* keys of the unchanged fields as before the failure
C38_FailedSaveNoEffect ==
    [][(lastOp'.op = "failed" /\ lastOp'.api = "save") =>
          /\ UNCHANGED <<fields, dirty, isLoadedFromDB, isSavedToDB, lastLoadTime>>
          /\ db' = db
          /\ lastOp'.events \in {<<"onError">>, <<"throw">>}
          /\ \A force \in BOOLEAN :
                /\ SaveKind(force)' = SaveKind(force)
                /\ DocumentKeys(isInDB)' = DocumentKeys(isInDB)]_vars

\* the insert of a dirty instance failed and its error continuation ran
C38_Witness ==
    /\ lastOp.op = "failed"
    /\ lastOp.api = "save"
    /\ lastOp.wrote = "insert"
    /\ lastOp.events = <<"onError">>
    /\ isDirty
    /\ ~isSavedToDB

\* C39: loading a document issues finitely many requests and comes to rest,
\* also when the stored foreign keys form a cycle: from some point on no
\* findOne is in flight
C39_LoadQuiesces == <>[](nodeLoads = <<>>)

\* a stored Node refers to itself, it was loaded, and after more than
\* MaxLoads requests a further findOne for it is in flight
C39_Witness ==
    /\ DOMAIN nodeStore = {Num(1)}
    /\ nodeStore[Num(1)] = [k \in {"next"} |-> Num(1)]
    /\ nodeCount > MaxLoads
    /\ nodeLoads = <<[query |-> IdFilter(Num(1)), given |-> FALSE]>>
    /\ nodeOp = "loadDone"

\* C40: a buildModel call that throws leaves the class as it was: no class
\* wrapper has been attached by it and no accessor of an earlier field of
\* the call has been installed
C40_FailedBuildNoEffect ==
    [][(regOp'.op = "buildModel" /\ regOp'.threw) =>
          UNCHANGED <<classMongore, prototype>>]_vars

\* buildModel({fields: {score, total}}) on a class that defines a method
\* total, and nothing else, has thrown
C40_Witness ==
    /\ regOp.op = "buildModel"
    /\ regOp.threw
    /\ regOp.decl = <<"score", "total">>
    /\ regOp.existing = {"total"}
    /\ prototype["total"] = "method"

====
